---------------------------- MODULE Spec2Model ----------------------------
(***************************************************************************)
(* A model of slinky's script emission engine (LinkerWriter) and of the    *)
(* exporters that read its finished state.                                  *)
(*                                                                         *)
(* Text is modelled as sequences of string tokens; a line of the script    *)
(* buffer is a record [op, a, b, c] of token sequences, one "op" for each  *)
(* writing primitive of the script buffer.  An Option<T> is a sequence of   *)
(* length 0 (None) or 1 (Some).  A HashMap is a TLA+ function; the order    *)
(* in which the program iterates over it is not fixed by the language and   *)
(* is an input `ho` (a permutation of the possible keys) of each pass.      *)
(***************************************************************************)
EXTENDS Integers, Sequences, FiniteSets, TLC

VARIABLES
    d,           \* the Document (immutable input of the pass)
    rs,          \* the RuntimeSettings (active tags, version comment)
    w,           \* the LinkerWriter: buffer, linker_symbols, files_paths, ...
    pc,          \* where the driver stands
    idx,         \* index of the next segment / section to process
    calls,       \* history: one record per add_segment / add_single_segment call
    dep_out,     \* text produced by export_dependencies_file
    header_out,  \* text produced by export_symbol_header
    first        \* outputs of the first pass, kept for a second pass

vars == <<d, rs, w, pc, idx, calls, dep_out, header_out, first>>

---------------------------------------------------------------------------
(* Bounds *)

MaxSegs == 2

MaxDepth == 4

MaxWalk == 3

---------------------------------------------------------------------------
(* Option, maps, sequences *)

None == <<>>

Some(x) == <<x>>

IsSome(o) == Len(o) > 0

Unwrap(o) == o[1]

EmptyMap == <<>>

SeqToSet(s) == {s[i] : i \in 1..Len(s)}

Contains(s, x) == \E i \in 1..Len(s) : s[i] = x

\* Iterator::position: index of the first element equal to x, 0 for None
\* (None sorts before every Some(i), as 0 sorts before every index).
Position(s, x) ==
    IF Contains(s, x) THEN CHOOSE i \in 1..Len(s) : s[i] = x /\ \A j \in 1..(i-1) : s[j] # x
    ELSE 0

Perms(S) == {p \in [1..Cardinality(S) -> S] : \A i, j \in 1..Cardinality(S) : p[i] = p[j] => i = j}

RECURSIVE SelectIn(_, _)
SelectIn(s, S) ==
    IF s = <<>> THEN <<>>
    ELSE IF Head(s) \in S THEN <<Head(s)>> \o SelectIn(Tail(s), S)
    ELSE SelectIn(Tail(s), S)

\* IndexSet::insert: append unless present
IndexSetInsert(s, x) == IF Contains(s, x) THEN s ELSE Append(s, x)

---------------------------------------------------------------------------
(* Conditional inclusion (RuntimeSettings::should_emit_entry) *)

should_emit_entry(exclude_if_any, exclude_if_all, include_if_any, include_if_all) ==
    /\ (exclude_if_any = {} \/ exclude_if_any \cap rs.tags = {})
    /\ (exclude_if_all = {} \/ ~(exclude_if_all \subseteq rs.tags))
    /\ (include_if_any = {} \/ include_if_any \cap rs.tags # {})
    /\ (include_if_all = {} \/ include_if_all \subseteq rs.tags)

---------------------------------------------------------------------------
(* Symbol naming (LinkerSymbolsStyle): a name is a token sequence *)

segment_rom_start(n) == n \o <<"_ROM_START">>

segment_rom_end(n) == n \o <<"_ROM_END">>

segment_rom_size(n) == n \o <<"_ROM_SIZE">>

segment_vram_start(n) == n \o <<"_VRAM">>

segment_vram_end(n) == n \o <<"_VRAM_END">>

segment_vram_size(n) == n \o <<"_VRAM_SIZE">>

segment_section_start(n, s) == n \o <<s, "_START">>

segment_section_end(n, s) == n \o <<s, "_END">>

segment_section_size(n, s) == n \o <<s, "_SIZE">>

vram_class_start(c) == <<c, "_VRAM_CLASS_START">>

vram_class_end(c) == <<c, "_VRAM_CLASS_END">>

vram_class_size(c) == <<c, "_VRAM_CLASS_SIZE">>

linker_offset(n) == <<n, "_OFFSET">>

---------------------------------------------------------------------------
(* The script buffer (ScriptBuffer) *)

Line(op, a, b, c) == [op |-> op, a |-> a, b |-> b, c |-> c]

writeln(x, text) == [x EXCEPT !.buffer = Append(@, Line("ln", text, <<>>, <<>>))]

write_line(x, l) == [x EXCEPT !.buffer = Append(@, l)]

write_empty_line(x) == write_line(x, Line("empty", <<>>, <<>>, <<>>))

begin_block(x) == [write_line(x, Line("begin", <<"{">>, <<>>, <<>>)) EXCEPT !.indent = @ + 1]

end_block(x) == [write_line(x, Line("end", <<"}">>, <<>>, <<>>)) EXCEPT !.indent = @ - 1]

finish(x) == [x EXCEPT !.finished = TRUE]

write_linker_symbol(x, symbol, value) ==
    [write_line(x, Line("sym", symbol, value, <<>>))
        EXCEPT !.linker_symbols = IndexSetInsert(@, symbol)]

MaxExpr(symbol, other_sym) == <<"MAX(">> \o symbol \o <<", ">> \o other_sym \o <<")">>

write_symbol_max_self(x, symbol, other_sym) ==
    write_linker_symbol(x, symbol, MaxExpr(symbol, other_sym))

align_symbol(x, symbol, align_value) ==
    write_line(x, Line("align", symbol, <<align_value>>, <<>>))

Flags(provide, hidden) ==
    (IF provide THEN <<"PROVIDE">> ELSE <<>>) \o (IF hidden THEN <<"HIDDEN">> ELSE <<>>)

write_symbol_assignment(x, name, value, provide, hidden) ==
    write_line(x, Line("assign", <<name>>, value, Flags(provide, hidden)))

write_required_symbol(x, name) == write_line(x, Line("required", <<name>>, <<>>, <<>>))

write_assert(x, check, error_message) ==
    write_line(x, Line("assert", <<check>>, <<error_message>>, <<>>))

write_single_entry_section(x, sect, value) ==
    write_line(x, Line("single_entry", <<sect>>, <<value>>, <<>>))

---------------------------------------------------------------------------
(* LinkerWriter: construction *)

VersionComment == <<"/* Generated by slinky */">>

\* lines 43-51: the version comment that opens the buffer
WithVersionComment(x, settings) ==
    IF settings.emit_version_comment
    THEN write_empty_line(writeln(x, VersionComment))
    ELSE x

new(doc, settings) ==
    WithVersionComment(
              [buffer |-> <<>>, linker_symbols |-> <<>>, indent |-> 0, finished |-> FALSE,
               files_paths |-> <<>>,
               vram_classes |-> [i \in 1..Len(doc.vram_classes) |->
                                    [name |-> doc.vram_classes[i].name,
                                     fixed_vram |-> doc.vram_classes[i].fixed_vram,
                                     fixed_symbol |-> doc.vram_classes[i].fixed_symbol,
                                     follows_classes |-> doc.vram_classes[i].follows_classes,
                                     emitted |-> doc.vram_classes[i].emitted]],
               single_segment |-> FALSE,
               reference_partial_objects |-> FALSE,
               emit_sections_kind_symbols |-> TRUE,
               emit_section_symbols |-> TRUE,
               err |-> "none", err_segment |-> "", err_vram_class |-> ""],
              settings)

new_reference_partial_objects(doc, settings) ==
    [new(doc, settings) EXCEPT !.reference_partial_objects = TRUE]

Failed(x) == x.err # "none"

\* IndexMap::get_mut by class name: the index of the class, 0 when absent
ClassIndex(x, name) ==
    IF \E i \in 1..Len(x.vram_classes) : x.vram_classes[i].name = name
    THEN CHOOSE i \in 1..Len(x.vram_classes) : x.vram_classes[i].name = name
    ELSE 0

---------------------------------------------------------------------------
(* LinkerWriter: files and sections *)

FileShouldEmit(file) ==
    should_emit_entry(file.exclude_if_any, file.exclude_if_all,
                      file.include_if_any, file.include_if_all)

\* the wrapping chosen without looking the section up in the named subset
KeepWrap_any_subset(file, section) ==
    CASE file.keep_sections.tag = "Absent" -> ""
      [] file.keep_sections.tag = "All" -> IF file.keep_sections.all THEN "KEEP" ELSE ""
      [] file.keep_sections.tag = "WhichOnes" ->
            IF file.keep_sections.which # {} THEN "KEEP" ELSE ""

\* the KEEP( ... ) wrapping chosen from file.keep_sections
KeepWrap(file, section) ==
    CASE file.keep_sections.tag = "Absent" -> ""
      [] file.keep_sections.tag = "All" -> IF file.keep_sections.all THEN "KEEP" ELSE ""
      [] file.keep_sections.tag = "WhichOnes" ->
            IF section \in file.keep_sections.which THEN "KEEP" ELSE ""

Wildcard(segment) == IF segment.wildcard_sections THEN "*" ELSE ""

\* files_paths as a plain list: the path is pushed on every reference
InsertPath_push(x, path) == [x EXCEPT !.files_paths = Append(@, path)]

\* path_escaped: a component that names a custom option is replaced by the
\* value of the option; no custom option is given in any run here, so a
\* path with such a component is not converted
PathConverts(path) == \A i \in 1..Len(path) : path[i] # "{opt}"

\* the error path_escaped(self.rs)? returns from emit_file
FailedPathConversion(x) == [x EXCEPT !.err = "FailedPathConversion"]

InsertPath(x, path) ==
    IF ~Contains(x.files_paths, path)
    THEN [x EXCEPT !.files_paths = Append(@, path)]
    ELSE x

\* the selector line, written with the section field of the file entry
ObjectSelector_own_section(file, segment, section, base_path) ==
    Line("sel", base_path \o file.path, <<file.section>>,
         <<KeepWrap(file, section), Wildcard(segment)>>)

\* "{left}{path}({section}{wildcard}){right};"
ObjectSelector(file, segment, section, base_path) ==
    Line("sel", base_path \o file.path, <<section>>,
         <<KeepWrap(file, section), Wildcard(segment)>>)

\* "{left}{path}:{subfile}({section}{wildcard}){right};"
ArchiveSelector(file, segment, section, base_path) ==
    Line("sel", base_path \o file.path, <<section>>,
         <<KeepWrap(file, section), Wildcard(segment), ":", file.subfile>>)

\* HashMap iteration: the keys of map m in the order ho gives them
IterKeys(m, ho) == SelectIn(ho, DOMAIN m)

RECURSIVE PushSources_first(_, _, _)
\* only the first key found to map to the section is pushed
PushSources_first(keys, m, section) ==
    IF keys = <<>> THEN <<>>
    ELSE IF m[Head(keys)] = section THEN <<Head(keys)>>
    ELSE PushSources_first(Tail(keys), m, section)

RECURSIVE PushSources(_, _, _)
PushSources(keys, m, section) ==
    IF keys = <<>> THEN <<>>
    ELSE (IF m[Head(keys)] = section THEN <<Head(keys)>> ELSE <<>>)
            \o PushSources(Tail(keys), m, section)

RECURSIVE KeepKey(_, _, _)
KeepKey(s, sections, p) ==
    IF s = <<>> THEN <<>>
    ELSE (IF Position(sections, Head(s)) = p THEN <<Head(s)>> ELSE <<>>)
            \o KeepKey(Tail(s), sections, p)

RECURSIVE SortFrom(_, _, _)
SortFrom(s, sections, p) ==
    IF p > Len(sections) THEN <<>>
    ELSE KeepKey(s, sections, p) \o SortFrom(s, sections, p + 1)

\* sort_unstable_by_key(|k| sections.position(k)): ascending position, entries
\* absent from sections (None) first; equal keys keep their incoming order (the
\* insertion sort the library runs on short slices).
SortByPosition(s, sections) == SortFrom(s, sections, 0)

\* sections_to_emit_here starting from vec![section] whatever the map holds
sections_to_emit_here_always(file, section, sections, ho) ==
    SortByPosition(
        <<section>>
            \o PushSources(IterKeys(file.section_order, ho), file.section_order, section),
        sections)

sections_to_emit_here(file, section, sections, ho) ==
    SortByPosition(
        (IF section \in DOMAIN file.section_order THEN <<>> ELSE <<section>>)
            \o PushSources(IterKeys(file.section_order, ho), file.section_order, section),
        sections)

RECURSIVE emit_file(_, _, _, _, _, _, _, _)
RECURSIVE emit_section_for_file(_, _, _, _, _, _, _, _)
RECURSIVE emit_group_files(_, _, _, _, _, _, _, _)
RECURSIVE emit_subgroups(_, _, _, _, _, _, _, _)
RECURSIVE emit_here(_, _, _, _, _, _, _, _)

\* Every operator that runs after a fallible call returns a failed writer as it
\* is: the `?` of the callers.

emit_group_files(x, files, segment, section, sections, new_base_path, ho, fuel) ==
    IF Failed(x) \/ files = <<>> THEN x
    ELSE emit_group_files(
            emit_section_for_file(x, Head(files), segment, section, sections,
                                  new_base_path, ho, fuel),
            Tail(files), segment, section, sections, new_base_path, ho, fuel)

\* emit_file with the pad and the linker offset written at every section
emit_file_marker_anywhere(x, file, segment, section, sections, base_path, ho, fuel) ==
    IF ~FileShouldEmit(file) THEN x
    ELSE CASE file.kind = "Object" ->
                IF ~PathConverts(file.path) THEN FailedPathConversion(x)
                ELSE InsertPath(
                        write_line(x, ObjectSelector(file, segment, section, base_path)),
                        base_path \o file.path)
           [] file.kind = "Archive" ->
                IF ~PathConverts(file.path) THEN FailedPathConversion(x)
                ELSE InsertPath(
                        write_line(x, ArchiveSelector(file, segment, section, base_path)),
                        base_path \o file.path)
           [] file.kind = "Pad" ->
                write_line(x, Line("pad", <<".">>, <<file.pad_amount>>, <<>>))
           [] file.kind = "LinkerOffset" ->
                write_linker_symbol(x, linker_offset(file.linker_offset_name), <<".">>)
           [] file.kind = "Group" ->
                emit_group_files(x, file.files, segment, section, sections,
                                 base_path \o file.dir, ho, fuel - 1)

emit_file(x, file, segment, section, sections, base_path, ho, fuel) ==
    IF ~FileShouldEmit(file) THEN x
    ELSE CASE file.kind = "Object" ->
                IF ~PathConverts(file.path) THEN FailedPathConversion(x)
                ELSE InsertPath(
                        write_line(x, ObjectSelector(file, segment, section, base_path)),
                        base_path \o file.path)
           [] file.kind = "Archive" ->
                IF ~PathConverts(file.path) THEN FailedPathConversion(x)
                ELSE InsertPath(
                        write_line(x, ArchiveSelector(file, segment, section, base_path)),
                        base_path \o file.path)
           [] file.kind = "Pad" ->
                IF file.section = section
                THEN write_line(x, Line("pad", <<".">>, <<file.pad_amount>>, <<>>))
                ELSE x
           [] file.kind = "LinkerOffset" ->
                IF file.section = section
                THEN write_linker_symbol(x, linker_offset(file.linker_offset_name), <<".">>)
                ELSE x
           [] file.kind = "Group" ->
                emit_group_files(x, file.files, segment, section, sections,
                                 base_path \o file.dir, ho, fuel - 1)

emit_subgroups(x, file, segment, other_sections, sections, base_path, ho, fuel) ==
    IF Failed(x) \/ other_sections = <<>> THEN x
    ELSE emit_subgroups(
            emit_section_for_file(x, file, segment, Head(other_sections), sections,
                                  base_path, ho, fuel),
            file, segment, Tail(other_sections), sections, base_path, ho, fuel)

\* the subgroups the segment declares under section k, unless referencing
\* partial objects
SubgroupsOf(x, file, segment, k, sections, base_path, ho, fuel) ==
    IF Failed(x) THEN x
    ELSE IF ~x.reference_partial_objects /\ k \in DOMAIN segment.sections_subgroups
    THEN emit_subgroups(x, file, segment, segment.sections_subgroups[k], sections,
                        base_path, ho, fuel - 1)
    ELSE x

\* emit_file for section k, followed by the subgroups of k
EmitWithSubgroups(x, file, segment, k, sections, base_path, ho, fuel) ==
    SubgroupsOf(emit_file(x, file, segment, k, sections, base_path, ho, fuel),
                file, segment, k, sections, base_path, ho, fuel)

emit_here(x, file, segment, ks, sections, base_path, ho, fuel) ==
    IF Failed(x) \/ ks = <<>> THEN x
    ELSE emit_here(
            EmitWithSubgroups(x, file, segment, Head(ks), sections, base_path, ho, fuel),
            file, segment, Tail(ks), sections, base_path, ho, fuel)

emit_section_for_file(x, file, segment, section, sections, base_path, ho, fuel) ==
    IF fuel <= 0 THEN [x EXCEPT !.err = "StackOverflow"]
    ELSE IF DOMAIN file.section_order # {}
    THEN emit_here(x, file, segment, sections_to_emit_here(file, section, sections, ho),
                   sections, base_path, ho, fuel)
    ELSE EmitWithSubgroups(x, file, segment, section, sections, base_path, ho, fuel)

RECURSIVE emit_section_files(_, _, _, _, _, _, _)
emit_section_files(x, files, segment, section, sections, base_path, ho) ==
    IF Failed(x) \/ files = <<>> THEN x
    ELSE emit_section_files(
            emit_section_for_file(x, Head(files), segment, section, sections,
                                  base_path, ho, MaxDepth),
            Tail(files), segment, section, sections, base_path, ho)

emit_section(x, segment, section, sections, ho) ==
    emit_section_files(x, segment.files, segment, section, sections,
                       IF ~x.reference_partial_objects
                       THEN d.settings.base_path \o segment.dir
                       ELSE d.settings.base_path,
                       ho)

---------------------------------------------------------------------------
(* LinkerWriter: symbols around sections and segments *)

\* write_sym_end_size with the size written ahead of the end
write_sym_end_size_size_first(x, start, end, size, value) ==
    write_linker_symbol(
        write_linker_symbol(x, size, <<"ABSOLUTE(">> \o end \o <<" - ">> \o start \o <<")">>),
        end, value)

\* write_sym_end_size with the size written as a plain line
write_sym_end_size_plain(x, start, end, size, value) ==
    write_line(
        write_linker_symbol(x, end, value),
        Line("sym", size, <<"ABSOLUTE(">> \o end \o <<" - ">> \o start \o <<")">>, <<>>))

write_sym_end_size(x, start, end, size, value) ==
    write_linker_symbol(
        write_linker_symbol(x, end, value),
        size, <<"ABSOLUTE(">> \o end \o <<" - ">> \o start \o <<")">>)

KindName(segment, noload) == <<segment.name, "_", IF noload THEN "noload" ELSE "alloc">>

write_sections_kind_start(x, segment, noload) ==
    IF x.emit_sections_kind_symbols
    THEN write_empty_line(
            write_linker_symbol(x, segment_vram_start(KindName(segment, noload)), <<".">>))
    ELSE x

write_sections_kind_end(x, segment, noload) ==
    IF Failed(x) THEN x
    ELSE IF x.emit_sections_kind_symbols
    THEN write_sym_end_size(write_empty_line(x),
                            segment_vram_start(KindName(segment, noload)),
                            segment_vram_end(KindName(segment, noload)),
                            segment_vram_size(KindName(segment, noload)),
                            <<".">>)
    ELSE x

GpShouldEmit(gp_info) ==
    should_emit_entry(gp_info.exclude_if_any, gp_info.exclude_if_all,
                      gp_info.include_if_any, gp_info.include_if_all)

\* align_symbol when an Option<u32> alignment is set
AlignIfSome(x, symbol, align) ==
    IF IsSome(align) THEN align_symbol(x, symbol, Unwrap(align)) ELSE x

\* align_symbol when the per-section alignment map has the section
AlignIfListed(x, alignment, section) ==
    IF section \in DOMAIN alignment THEN align_symbol(x, <<".">>, alignment[section]) ELSE x

\* lines 773-788: the _gp assignment of the segment's gp_info
write_gp(x, segment, section) ==
    IF IsSome(segment.gp_info)
       /\ GpShouldEmit(Unwrap(segment.gp_info))
       /\ Unwrap(segment.gp_info).section = section
    THEN write_symbol_assignment(x, "_gp",
            <<". + ", Unwrap(segment.gp_info).offset>>,
            Unwrap(segment.gp_info).provide, Unwrap(segment.gp_info).hidden)
    ELSE x

write_section_symbol_start(x, segment, section) ==
    IF x.emit_section_symbols
    THEN write_linker_symbol(
            write_gp(
                AlignIfListed(
                    AlignIfSome(x, <<".">>, segment.section_start_align),
                    segment.sections_start_alignment, section),
                segment, section),
            segment_section_start(<<segment.name>>, section), <<".">>)
    ELSE x

write_section_symbol_end(x, segment, section) ==
    IF Failed(x) THEN x
    ELSE IF x.emit_section_symbols
    THEN write_sym_end_size(
            AlignIfListed(
                AlignIfSome(x, <<".">>, segment.section_end_align),
                segment.sections_end_alignment, section),
            segment_section_start(<<segment.name>>, section),
            segment_section_end(<<segment.name>>, section),
            segment_section_size(<<segment.name>>, section),
            <<".">>)
    ELSE x

\* the address written on the alloc output-section line
\* the address with the vram class ahead of the segment's own placement
SegmentAddress_class_first(segment) ==
    IF IsSome(segment.vram_class) THEN vram_class_start(Unwrap(segment.vram_class))
    ELSE IF IsSome(segment.fixed_vram) THEN <<"0x", Unwrap(segment.fixed_vram)>>
    ELSE IF IsSome(segment.fixed_symbol) THEN <<Unwrap(segment.fixed_symbol)>>
    ELSE IF IsSome(segment.follows_segment)
         THEN segment_vram_end(<<Unwrap(segment.follows_segment)>>)
    ELSE <<>>

SegmentAddress(segment) ==
    IF IsSome(segment.fixed_vram) THEN <<"0x", Unwrap(segment.fixed_vram)>>
    ELSE IF IsSome(segment.fixed_symbol) THEN <<Unwrap(segment.fixed_symbol)>>
    ELSE IF IsSome(segment.follows_segment)
         THEN segment_vram_end(<<Unwrap(segment.follows_segment)>>)
    ELSE IF IsSome(segment.vram_class) THEN vram_class_start(Unwrap(segment.vram_class))
    ELSE <<>>

Subalign(segment) ==
    IF IsSome(segment.subalign) THEN <<"SUBALIGN(", Unwrap(segment.subalign), ")">> ELSE <<>>

write_segment_start(x, segment, noload) ==
    begin_block(
        write_line(write_sections_kind_start(x, segment, noload),
            Line("out",
                 <<".", segment.name>> \o (IF noload THEN <<".noload">> ELSE <<>>),
                 IF noload THEN <<"(NOLOAD)">> ELSE SegmentAddress(segment),
                 (IF noload THEN <<>>
                  ELSE <<"AT(">> \o segment_rom_start(<<segment.name>>) \o <<")">>)
                    \o Subalign(segment))))

\* the end of an output section without the closing of its block
write_segment_end_unclosed(x, segment, noload) ==
    IF Failed(x) THEN x
    ELSE write_sections_kind_end(x, segment, noload)

write_segment_end(x, segment, noload) ==
    IF Failed(x) THEN x
    ELSE write_sections_kind_end(end_block(x), segment, noload)

\* FILL(0x..) when the segment has a fill value
write_fill(x, segment) ==
    IF IsSome(segment.fill_value)
    THEN write_line(x, Line("fill", <<"FILL(0x">>, segment.fill_value, <<")">>))
    ELSE x

\* the empty line between two sections of a list
SeparateSections(x, sections, i) ==
    IF Failed(x) THEN x
    ELSE IF i + 1 <= Len(sections) THEN write_empty_line(x) ELSE x

RECURSIVE write_segment_sections(_, _, _, _, _)
write_segment_sections(x, segment, sections, i, ho) ==
    IF Failed(x) \/ i > Len(sections) THEN x
    ELSE write_segment_sections(
            SeparateSections(
                write_section_symbol_end(
                    emit_section(write_section_symbol_start(x, segment, sections[i]),
                                 segment, sections[i], sections, ho),
                    segment, sections[i]),
                sections, i),
            segment, sections, i + 1, ho)

write_segment(x, segment, sections, noload, ho) ==
    IF Failed(x) THEN x
    ELSE write_segment_end(
            write_segment_sections(
                write_fill(write_segment_start(x, segment, noload), segment),
                segment, sections, 1, ho),
            segment, noload)

\* lines 1085-1086: close the block of one section and write its end symbols
close_single_section(x, segment, section) ==
    IF Failed(x) THEN x
    ELSE write_section_symbol_end(end_block(x), segment, section)

RECURSIVE write_single_segment_sections(_, _, _, _, _, _)
write_single_segment_sections(x, segment, sections, noload, i, ho) ==
    IF Failed(x) \/ i > Len(sections) THEN x
    ELSE write_single_segment_sections(
            SeparateSections(
                close_single_section(
                    emit_section(
                        write_fill(
                            begin_block(
                                write_line(
                                    write_section_symbol_start(x, segment, sections[i]),
                                    Line("out", <<sections[i]>>,
                                         IF noload THEN <<"(NOLOAD)">> ELSE <<>>,
                                         Subalign(segment)))),
                            segment),
                        segment, sections[i], sections, ho),
                    segment, sections[i]),
                sections, i),
            segment, sections, noload, i + 1, ho)

write_single_segment(x, segment, sections, noload, ho) ==
    IF Failed(x) THEN x
    ELSE write_sections_kind_end(
            write_single_segment_sections(
                write_sections_kind_start(x, segment, noload),
                segment, sections, noload, 1, ho),
            segment, noload)

---------------------------------------------------------------------------
(* LinkerWriter: the placement block *)

\* the fixed _gp assignment, when settings.hardcoded_gp_value is set
write_hardcoded_gp(x) ==
    IF IsSome(d.settings.hardcoded_gp_value)
    THEN writeln(x, <<"_gp = 0x", Unwrap(d.settings.hardcoded_gp_value), ";">>)
    ELSE x

begin_sections(x) ==
    write_empty_line(
        write_hardcoded_gp(
            writeln(begin_block(writeln(x, <<"SECTIONS">>)), <<"__romPos = 0x0;">>)))

RECURSIVE write_class_sizes(_, _)
write_class_sizes(x, i) ==
    IF i > Len(x.vram_classes) THEN x
    ELSE IF ~x.vram_classes[i].emitted THEN write_class_sizes(x, i + 1)
    ELSE write_class_sizes(
            write_linker_symbol(x, vram_class_size(x.vram_classes[i].name),
                vram_class_end(x.vram_classes[i].name) \o <<" - ">>
                    \o vram_class_start(x.vram_classes[i].name)),
            i + 1)

RECURSIVE write_entries(_, _)
write_entries(x, sects) ==
    IF sects = <<>> THEN x
    ELSE write_entries(write_single_entry_section(x, Head(sects), "0"), Tail(sects))

RECURSIVE write_discards(_, _)
write_discards(x, sects) ==
    IF sects = <<>> THEN x
    ELSE write_discards(writeln(x, <<"*(", Head(sects), ");">>), Tail(sects))

AnyEmitted(x) == \E i \in 1..Len(x.vram_classes) : x.vram_classes[i].emitted

EmptyLineIf(x, need_ln) == IF need_ln THEN write_empty_line(x) ELSE x

\* lines 433-455: the placeholder sections of one allow list
write_allowlist(x, sects, need_ln) ==
    IF sects # <<>> THEN write_entries(EmptyLineIf(x, need_ln), sects) ELSE x

\* `*(*);` closes the discard list when discard_wildcard_section is set
write_discard_wildcard(x) ==
    IF d.settings.discard_wildcard_section THEN writeln(x, <<"*(*);">>) ELSE x

\* the /DISCARD/ block with the wildcard entry ahead of the deny list
write_discard_block_wildcard_first(x, need_ln) ==
    IF d.settings.discard_wildcard_section \/ d.settings.sections_denylist # <<>>
    THEN end_block(
            write_discards(
                write_discard_wildcard(
                    begin_block(writeln(EmptyLineIf(x, need_ln), <<"/DISCARD/ :">>))),
                d.settings.sections_denylist))
    ELSE x

\* lines 457-475: the /DISCARD/ block
write_discard_block(x, need_ln) ==
    IF d.settings.discard_wildcard_section \/ d.settings.sections_denylist # <<>>
    THEN end_block(
            write_discard_wildcard(
                write_discards(
                    begin_block(writeln(EmptyLineIf(x, need_ln), <<"/DISCARD/ :">>)),
                    d.settings.sections_denylist)))
    ELSE x

end_sections(x) ==
    IF Failed(x) THEN x
    ELSE finish(end_block(
            write_discard_block(
                write_allowlist(
                    write_allowlist(write_class_sizes(x, 1),
                                    d.settings.sections_allowlist, AnyEmitted(x)),
                    d.settings.sections_allowlist_extra,
                    AnyEmitted(x) \/ d.settings.sections_allowlist # <<>>),
                AnyEmitted(x) \/ d.settings.sections_allowlist # <<>>
                    \/ d.settings.sections_allowlist_extra # <<>>)))

\* the predicate of a segment with the exclude and include sets exchanged
SegmentShouldEmit_exchanged(segment) ==
    should_emit_entry(segment.include_if_any, segment.include_if_all,
                      segment.exclude_if_any, segment.exclude_if_all)

SegmentShouldEmit(segment) ==
    should_emit_entry(segment.exclude_if_any, segment.exclude_if_all,
                      segment.include_if_any, segment.include_if_all)

RECURSIVE write_follows(_, _, _)
write_follows(x, vram_class_sym, follows_classes) ==
    IF follows_classes = <<>> THEN x
    ELSE write_follows(
            write_symbol_max_self(x, vram_class_sym, vram_class_end(Head(follows_classes))),
            vram_class_sym, Tail(follows_classes))

\* the start symbol raised over follows_classes whatever it was assigned
write_class_start_always_follows(x, vram_class) ==
    write_follows(
        write_linker_symbol(x, vram_class_start(vram_class.name),
            IF IsSome(vram_class.fixed_vram) THEN <<"0x", Unwrap(vram_class.fixed_vram)>>
            ELSE IF IsSome(vram_class.fixed_symbol) THEN <<Unwrap(vram_class.fixed_symbol)>>
            ELSE <<"0x00000000">>),
        vram_class_start(vram_class.name), vram_class.follows_classes)

\* lines 521-536: the start symbol of a class on its first emission
write_class_start(x, vram_class) ==
    IF IsSome(vram_class.fixed_vram)
    THEN write_linker_symbol(x, vram_class_start(vram_class.name),
                             <<"0x", Unwrap(vram_class.fixed_vram)>>)
    ELSE IF IsSome(vram_class.fixed_symbol)
    THEN write_linker_symbol(x, vram_class_start(vram_class.name),
                             <<Unwrap(vram_class.fixed_symbol)>>)
    ELSE write_follows(
            write_linker_symbol(x, vram_class_start(vram_class.name), <<"0x00000000">>),
            vram_class_start(vram_class.name), vram_class.follows_classes)

\* vram_class.emitted = true
MarkEmitted(x, ci) == [x EXCEPT !.vram_classes[ci].emitted = TRUE]

\* the class at index ci, emitted at every reference
emit_vram_class_every_time(x, ci) ==
    MarkEmitted(
        write_empty_line(
            write_linker_symbol(write_class_start(x, x.vram_classes[ci]),
                                vram_class_end(x.vram_classes[ci].name),
                                <<"0x00000000">>)),
        ci)

\* lines 518-543: the class at index ci, unless it was emitted before
emit_vram_class(x, ci) ==
    IF ~x.vram_classes[ci].emitted
    THEN MarkEmitted(
            write_empty_line(
                write_linker_symbol(write_class_start(x, x.vram_classes[ci]),
                                    vram_class_end(x.vram_classes[ci].name),
                                    <<"0x00000000">>)),
            ci)
    ELSE x

\* lines 546-554: start alignment and the rom / vram start symbols
segment_open(x, segment) ==
    write_linker_symbol(
        write_linker_symbol(
            AlignIfSome(AlignIfSome(x, <<"__romPos">>, segment.segment_start_align),
                        <<".">>, segment.segment_start_align),
            segment_rom_start(<<segment.name>>), <<"__romPos">>),
        segment_vram_start(<<segment.name>>), <<"ADDR(.", segment.name, ")">>)

\* the class end symbol raised to the start of the segment
raise_class_end_to_start(x, segment) ==
    IF IsSome(segment.vram_class)
    THEN write_symbol_max_self(write_empty_line(x),
                               vram_class_end(Unwrap(segment.vram_class)),
                               segment_vram_start(<<segment.name>>))
    ELSE x

\* lines 588-594: raise the class end symbol to the end of the segment
raise_class_end(x, segment) ==
    IF IsSome(segment.vram_class)
    THEN write_symbol_max_self(write_empty_line(x),
                               vram_class_end(Unwrap(segment.vram_class)),
                               segment_vram_end(<<segment.name>>))
    ELSE x

\* the end of a segment with the class end raised ahead of the end symbols
segment_close_raise_first(x, segment) ==
    IF Failed(x) THEN x
    ELSE write_empty_line(
            write_sym_end_size(
                write_sym_end_size(
                    raise_class_end(
                        AlignIfSome(
                            AlignIfSome(
                                writeln(write_empty_line(x),
                                        <<"__romPos += SIZEOF(.", segment.name, ");">>),
                                <<"__romPos">>, segment.segment_end_align),
                            <<".">>, segment.segment_end_align),
                        segment),
                    segment_vram_start(<<segment.name>>),
                    segment_vram_end(<<segment.name>>),
                    segment_vram_size(<<segment.name>>), <<".">>),
                segment_rom_start(<<segment.name>>),
                segment_rom_end(<<segment.name>>),
                segment_rom_size(<<segment.name>>), <<"__romPos">>))

\* lines 564-598: rom advance, end alignment, end/size symbols, class end
segment_close(x, segment) ==
    IF Failed(x) THEN x
    ELSE write_empty_line(
            raise_class_end(
                write_sym_end_size(
                    write_sym_end_size(
                        AlignIfSome(
                            AlignIfSome(
                                writeln(write_empty_line(x),
                                        <<"__romPos += SIZEOF(.", segment.name, ");">>),
                                <<"__romPos">>, segment.segment_end_align),
                            <<".">>, segment.segment_end_align),
                        segment_vram_start(<<segment.name>>),
                        segment_vram_end(<<segment.name>>),
                        segment_vram_size(<<segment.name>>), <<".">>),
                    segment_rom_start(<<segment.name>>),
                    segment_rom_end(<<segment.name>>),
                    segment_rom_size(<<segment.name>>), <<"__romPos">>),
                segment))

\* write_empty_line between the alloc and the noload block
SeparateBlocks(x) == IF Failed(x) THEN x ELSE write_empty_line(x)

\* lines 546-598: the segment proper, once its class is resolved
segment_body(x, segment, ho) ==
    segment_close(
        write_segment(
            SeparateBlocks(
                write_segment(segment_open(x, segment), segment, segment.alloc_sections,
                              FALSE, ho)),
            segment, segment.noload_sections, TRUE, ho),
        segment)

\* lines 507-544: look the class up and emit it on its first reference
resolve_class(x, segment) ==
    IF IsSome(segment.vram_class)
    THEN emit_vram_class(x, ClassIndex(x, Unwrap(segment.vram_class)))
    ELSE x

\* lines 510-513: Err(SlinkyError::MissingVramClassForSegment { segment, vram_class })
MissingVramClassForSegment(x, segment) ==
    [x EXCEPT !.err = "MissingVramClassForSegment",
              !.err_segment = segment.name,
              !.err_vram_class = Unwrap(segment.vram_class)]

\* add_segment looking the class up after the start of the segment is written
add_segment_late_lookup(x, segment, ho) ==
    IF ~SegmentShouldEmit(segment) THEN x
    ELSE IF x.single_segment THEN [x EXCEPT !.err = "panic"]
    ELSE IF IsSome(segment.vram_class) /\ ClassIndex(x, Unwrap(segment.vram_class)) = 0
    THEN MissingVramClassForSegment(segment_open(x, segment), segment)
    ELSE segment_body(resolve_class(x, segment), segment, ho)

add_segment(x, segment, ho) ==
    IF ~SegmentShouldEmit(segment) THEN x
    ELSE IF x.single_segment THEN [x EXCEPT !.err = "panic"]
    ELSE IF IsSome(segment.vram_class) /\ ClassIndex(x, Unwrap(segment.vram_class)) = 0
    THEN MissingVramClassForSegment(x, segment)
    ELSE segment_body(resolve_class(x, segment), segment, ho)

\* `. = 0x...;` when the single segment has a fixed vram
write_fixed_origin(x, segment) ==
    IF IsSome(segment.fixed_vram)
    THEN write_empty_line(writeln(x, <<". = 0x", Unwrap(segment.fixed_vram), ";">>))
    ELSE x

\* lines 622-624: the last empty line, then end_sections
single_segment_close(x) == IF Failed(x) THEN x ELSE end_sections(write_empty_line(x))

add_single_segment(x, segment, ho) ==
    IF x.single_segment THEN [x EXCEPT !.err = "panic"]
    ELSE single_segment_close(
            write_single_segment(
                SeparateBlocks(
                    write_single_segment(
                        write_fixed_origin(
                            begin_block(writeln([x EXCEPT !.single_segment = TRUE],
                                                <<"SECTIONS">>)),
                            segment),
                        segment, segment.alloc_sections, FALSE, ho)),
                segment, segment.noload_sections, TRUE, ho))

---------------------------------------------------------------------------
(* LinkerWriter: entry, symbol assignments, required symbols, asserts *)

EntryShouldEmit(e) ==
    should_emit_entry(e.exclude_if_any, e.exclude_if_all, e.include_if_any, e.include_if_all)

SeparateFromPrevious(x) == IF x.buffer # <<>> THEN write_empty_line(x) ELSE x

add_entry(x, entry) == writeln(SeparateFromPrevious(x), <<"ENTRY(", entry, ");">>)

add_symbol_assignment(x, symbol_assignment) ==
    IF ~EntryShouldEmit(symbol_assignment) THEN x
    ELSE write_symbol_assignment(x, symbol_assignment.name, symbol_assignment.value,
                                 symbol_assignment.provide, symbol_assignment.hidden)

RECURSIVE add_symbol_assignments_from(_, _)
add_symbol_assignments_from(x, l) ==
    IF l = <<>> THEN x
    ELSE add_symbol_assignments_from(add_symbol_assignment(x, Head(l)), Tail(l))

add_all_symbol_assignments(x, symbol_assignments) ==
    IF symbol_assignments = <<>> THEN x
    ELSE add_symbol_assignments_from(SeparateFromPrevious(x), symbol_assignments)

add_required_symbol(x, required_symbol) ==
    IF ~EntryShouldEmit(required_symbol) THEN x
    ELSE write_required_symbol(x, required_symbol.name)

RECURSIVE add_required_symbols_from(_, _)
add_required_symbols_from(x, l) ==
    IF l = <<>> THEN x
    ELSE add_required_symbols_from(add_required_symbol(x, Head(l)), Tail(l))

add_all_required_symbols(x, required_symbols) ==
    IF required_symbols = <<>> THEN x
    ELSE add_required_symbols_from(SeparateFromPrevious(x), required_symbols)

add_assert(x, assert_entry) ==
    IF ~EntryShouldEmit(assert_entry) THEN x
    ELSE write_assert(x, assert_entry.check, assert_entry.error_message)

RECURSIVE add_asserts_from(_, _)
add_asserts_from(x, l) ==
    IF l = <<>> THEN x
    ELSE add_asserts_from(add_assert(x, Head(l)), Tail(l))

add_all_asserts(x, asserts) ==
    IF asserts = <<>> THEN x
    ELSE add_asserts_from(SeparateFromPrevious(x), asserts)

---------------------------------------------------------------------------
(* Exporters *)

RECURSIVE PathLines(_, _)
PathLines(op, paths) ==
    IF paths = <<>> THEN <<>>
    ELSE <<Line(op, Head(paths), <<>>, <<>>)>> \o PathLines(op, Tail(paths))

\* "target: \ p1 \ p2 ..." then one "p:" rule per path
export_dependencies_file(x, target_path) ==
    (IF rs.emit_version_comment THEN <<Line("comment", VersionComment, <<>>, <<>>)>> ELSE <<>>)
        \o <<Line("target", target_path, <<>>, <<>>)>>
        \o PathLines("prereq", x.files_paths)
        \o PathLines("rule", x.files_paths)

get_linker_symbols(x) == x.linker_symbols

RECURSIVE ExternLines(_)
ExternLines(syms) ==
    IF syms = <<>> THEN <<>>
    ELSE <<Line("extern", Head(syms), <<d.settings.symbols_header_type>>,
                IF d.settings.symbols_header_as_array THEN <<"[]">> ELSE <<>>)>>
            \o ExternLines(Tail(syms))

export_symbol_header(x) ==
    (IF rs.emit_version_comment THEN <<Line("comment", VersionComment, <<>>, <<>>)>> ELSE <<>>)
        \o <<Line("guard", <<"#ifndef HEADER_SYMBOLS_H">>, <<>>, <<>>)>>
        \o ExternLines(get_linker_symbols(x))
        \o <<Line("guard", <<"#endif">>, <<>>, <<>>)>>

---------------------------------------------------------------------------
(* The documents the engine is run on *)

Tags == {"A", "B"}

Pred(ea, eall, ia, iall) ==
    [exclude_if_any |-> ea, exclude_if_all |-> eall, include_if_any |-> ia, include_if_all |-> iall]

NoPred == Pred({}, {}, {}, {})

KeepAbsent == [tag |-> "Absent", all |-> FALSE, which |-> {}]

KeepAll(b) == [tag |-> "All", all |-> b, which |-> {}]

KeepWhich(S) == [tag |-> "WhichOnes", all |-> FALSE, which |-> S]

FileBase(kind, p) ==
    [kind |-> kind, path |-> <<>>, dir |-> <<>>, subfile |-> "*", pad_amount |-> "0",
     section |-> "", linker_offset_name |-> "", section_order |-> EmptyMap,
     keep_sections |-> KeepAbsent, files |-> <<>>,
     exclude_if_any |-> p.exclude_if_any, exclude_if_all |-> p.exclude_if_all,
     include_if_any |-> p.include_if_any, include_if_all |-> p.include_if_all]

Object(name, order, keep, p) ==
    [FileBase("Object", p) EXCEPT !.path = <<name>>, !.section_order = order,
                                  !.keep_sections = keep]

Archive(name, subfile, order, keep, p) ==
    [FileBase("Archive", p) EXCEPT !.path = <<name>>, !.subfile = subfile,
                                   !.section_order = order, !.keep_sections = keep]

Pad(amount, section, p) ==
    [FileBase("Pad", p) EXCEPT !.pad_amount = amount, !.section = section]

LinkerOffset(name, section, p) ==
    [FileBase("LinkerOffset", p) EXCEPT !.linker_offset_name = name, !.section = section]

Group(dir, files, p) == [FileBase("Group", p) EXCEPT !.dir = <<dir>>, !.files = files]

GpInfo(section, p) ==
    [section |-> section, offset |-> "7FF0", provide |-> FALSE, hidden |-> FALSE,
     exclude_if_any |-> p.exclude_if_any, exclude_if_all |-> p.exclude_if_all,
     include_if_any |-> p.include_if_any, include_if_all |-> p.include_if_all]

\* What a segment holds besides its name, class and predicate
Layouts ==
    << [alloc_sections |-> <<".text", ".data">>, noload_sections |-> <<".bss">>,
        sections_subgroups |-> EmptyMap,
        gp_info |-> Some(GpInfo(".data", Pred({}, {}, {"A"}, {}))),
        files |-> << Object("a.o", EmptyMap, KeepWhich({".text"}), NoPred),
                     Archive("lib.a", "m.o", EmptyMap, KeepAbsent, NoPred),
                     Pad("10", ".data", NoPred),
                     Object("x.o", EmptyMap, KeepAbsent, Pred({"B"}, {}, {}, {})) >>],
       [alloc_sections |-> <<".text", ".rodata", ".data">>, noload_sections |-> <<".bss">>,
        sections_subgroups |-> EmptyMap,
        gp_info |-> None,
        files |-> << Object("b.o", (".rodata" :> ".data") @@ (".sdata" :> ".data")
                                      @@ (".lit" :> ".data"),
                            KeepAll(TRUE), NoPred),
                     LinkerOffset("mark", ".text", Pred({}, {"A", "B"}, {}, {})) >>],
       [alloc_sections |-> <<".text", ".data">>, noload_sections |-> <<>>,
        sections_subgroups |-> (".text" :> <<".text.hot">>),
        gp_info |-> None,
        files |-> << Group("g", << Object("c.o", EmptyMap, KeepAbsent, NoPred),
                                   Object("y.o", EmptyMap, KeepAbsent,
                                          Pred({}, {}, {}, {"A", "B"})) >>, NoPred),
                     Object("a.o", EmptyMap, KeepAll(FALSE), NoPred) >>] >>

SegPreds == {NoPred, Pred({"A"}, {}, {}, {})}

SegClasses == {None, Some("c1"), Some("c2"), Some("cX")}

SegNames == <<"s1", "s2", "s3", "s4">>

MkSegment(i, variant, layout) ==
    [name |-> SegNames[i], dir |-> <<>>,
     vram_class |-> variant.vram_class,
     fixed_vram |-> None, fixed_symbol |-> None, follows_segment |-> None,
     segment_start_align |-> None, segment_end_align |-> None,
     section_start_align |-> None, section_end_align |-> None,
     sections_start_alignment |-> EmptyMap, sections_end_alignment |-> EmptyMap,
     subalign |-> None, fill_value |-> None, wildcard_sections |-> TRUE,
     alloc_sections |-> layout.alloc_sections, noload_sections |-> layout.noload_sections,
     sections_subgroups |-> layout.sections_subgroups,
     gp_info |-> layout.gp_info, files |-> layout.files,
     exclude_if_any |-> variant.pred.exclude_if_any,
     exclude_if_all |-> variant.pred.exclude_if_all,
     include_if_any |-> variant.pred.include_if_any,
     include_if_all |-> variant.pred.include_if_all]

Variants == [vram_class : SegClasses, pred : SegPreds]

\* the layout of segment i in a document of rotation r
LayoutOf(i, r) == Layouts[((i + r) % Len(Layouts)) + 1]

VramClasses ==
    << [name |-> "c1", fixed_vram |-> Some("80000000"), fixed_symbol |-> None,
        follows_classes |-> <<>>, emitted |-> FALSE],
       [name |-> "c2", fixed_vram |-> None, fixed_symbol |-> None,
        follows_classes |-> <<"c1">>, emitted |-> FALSE] >>

Settings(single) ==
    [base_path |-> <<"build">>, single_segment_mode |-> single,
     hardcoded_gp_value |-> None,
     sections_allowlist |-> <<>>, sections_allowlist_extra |-> <<>>,
     sections_denylist |-> <<".note">>, discard_wildcard_section |-> FALSE,
     symbols_header_type |-> "char", symbols_header_as_array |-> TRUE,
     target_path |-> <<"out.ld">>]

Documents ==
    { [settings |-> Settings(single),
       segments |-> [i \in 1..Len(vs) |-> MkSegment(i, vs[i], LayoutOf(i, r))],
       vram_classes |-> VramClasses,
       symbol_assignments |->
           << [name |-> "sa1", value |-> <<"0x1">>, provide |-> FALSE, hidden |-> FALSE,
               exclude_if_any |-> {}, exclude_if_all |-> {},
               include_if_any |-> {}, include_if_all |-> {}],
              [name |-> "sa2", value |-> <<"0x2">>, provide |-> TRUE, hidden |-> FALSE,
               exclude_if_any |-> {"A"}, exclude_if_all |-> {},
               include_if_any |-> {}, include_if_all |-> {}] >>,
       required_symbols |->
           << [name |-> "rq1", exclude_if_any |-> {}, exclude_if_all |-> {},
               include_if_any |-> {"B"}, include_if_all |-> {}] >>,
       asserts |->
           << [check |-> "chk1", error_message |-> "msg1",
               exclude_if_any |-> {}, exclude_if_all |-> {"A", "B"},
               include_if_any |-> {}, include_if_all |-> {}] >>,
       entry |-> Some("start")]
      : single \in BOOLEAN,
        vs \in UNION {[1..m -> Variants] : m \in 0..MaxSegs}, r \in 0..(Len(Layouts) - 1) }

---------------------------------------------------------------------------
(* The driver: one generation pass *)

RECURSIVE OrderKeys(_)
OrderKeys(files) ==
    IF files = <<>> THEN {}
    ELSE DOMAIN Head(files).section_order \cup OrderKeys(Head(files).files)
            \cup OrderKeys(Tail(files))

\* the orders in which the section_order maps of a segment's files may be iterated
HashOrders(segment) == Perms(OrderKeys(segment.files))

EmittedClasses(x) ==
    {x.vram_classes[i].name : i \in {j \in 1..Len(x.vram_classes) : x.vram_classes[j].emitted}}

Call(fn, i, x, y) ==
    [fn |-> fn, i |-> i,
     b0 |-> Len(x.buffer), b1 |-> Len(y.buffer),
     s0 |-> Len(x.linker_symbols), s1 |-> Len(y.linker_symbols),
     p0 |-> Len(x.files_paths), p1 |-> Len(y.files_paths),
     e0 |-> EmittedClasses(x), e1 |-> EmittedClasses(y),
     err |-> y.err]

Outcome(x, ok) ==
    IF x.err = "none" THEN ok ELSE IF x.err = "panic" THEN "panicked" ELSE "failed"

Init ==
    /\ d \in Documents
    /\ rs \in [tags : SUBSET Tags, emit_version_comment : {FALSE}]
    /\ w = new(d, rs)
    /\ pc = "segments"
    /\ idx = 1
    /\ calls = <<>>
    /\ dep_out = <<>>
    /\ header_out = <<>>
    /\ first = None

\* add_all_segments without the assertion of line 84: the placement block
\* is opened whatever the number of segments
AssertOneSegment_not_checked ==
    /\ pc = "segments"
    /\ d.settings.single_segment_mode
    /\ Len(d.segments) # 1
    /\ w' = begin_sections(w)
    /\ pc' = "panicked"
    /\ UNCHANGED <<d, rs, idx, calls, dep_out, header_out, first>>

\* add_all_segments, single-segment mode: assert!(segments.len() == 1)
AssertOneSegment ==
    /\ pc = "segments"
    /\ d.settings.single_segment_mode
    /\ Len(d.segments) # 1
    /\ pc' = "panicked"
    /\ UNCHANGED <<d, rs, w, idx, calls, dep_out, header_out, first>>

AddSingleSegment ==
    /\ pc = "segments"
    /\ d.settings.single_segment_mode
    /\ Len(d.segments) = 1
    /\ \E ho \in HashOrders(d.segments[1]) :
          /\ w' = add_single_segment(w, d.segments[1], ho)
          /\ calls' = Append(calls, Call("add_single_segment", 1, w, w'))
          /\ pc' = Outcome(w', "entry")
    /\ idx' = 2
    /\ UNCHANGED <<d, rs, dep_out, header_out, first>>

BeginSections ==
    /\ pc = "segments"
    /\ ~d.settings.single_segment_mode
    /\ w' = begin_sections(w)
    /\ pc' = "open"
    /\ UNCHANGED <<d, rs, idx, calls, dep_out, header_out, first>>

AddSegment ==
    /\ pc = "open"
    /\ idx <= Len(d.segments)
    /\ \E ho \in HashOrders(d.segments[idx]) :
          /\ w' = add_segment(w, d.segments[idx], ho)
          /\ calls' = Append(calls, Call("add_segment", idx, w, w'))
          /\ pc' = Outcome(w', "open")
    /\ idx' = idx + 1
    /\ UNCHANGED <<d, rs, dep_out, header_out, first>>

EndSections ==
    /\ pc = "open"
    /\ idx > Len(d.segments)
    /\ w' = end_sections(w)
    /\ pc' = "entry"
    /\ UNCHANGED <<d, rs, idx, calls, dep_out, header_out, first>>

AddEntry ==
    /\ pc = "entry"
    /\ w' = IF IsSome(d.entry) THEN add_entry(w, Unwrap(d.entry)) ELSE w
    /\ pc' = "symbol_assignments"
    /\ UNCHANGED <<d, rs, idx, calls, dep_out, header_out, first>>

AddAllSymbolAssignments ==
    /\ pc = "symbol_assignments"
    /\ w' = add_all_symbol_assignments(w, d.symbol_assignments)
    /\ pc' = "required_symbols"
    /\ UNCHANGED <<d, rs, idx, calls, dep_out, header_out, first>>

AddAllRequiredSymbols ==
    /\ pc = "required_symbols"
    /\ w' = add_all_required_symbols(w, d.required_symbols)
    /\ pc' = "asserts"
    /\ UNCHANGED <<d, rs, idx, calls, dep_out, header_out, first>>

AddAllAsserts ==
    /\ pc = "asserts"
    /\ w' = add_all_asserts(w, d.asserts)
    /\ pc' = "save"
    /\ UNCHANGED <<d, rs, idx, calls, dep_out, header_out, first>>

SaveOtherFiles ==
    /\ pc = "save"
    /\ dep_out' = export_dependencies_file(w, d.settings.target_path)
    /\ header_out' = export_symbol_header(w)
    /\ pc' = "done"
    /\ UNCHANGED <<d, rs, w, idx, calls, first>>

Next ==
    \/ AssertOneSegment
    \/ AddSingleSegment
    \/ BeginSections
    \/ AddSegment
    \/ EndSections
    \/ AddEntry
    \/ AddAllSymbolAssignments
    \/ AddAllRequiredSymbols
    \/ AddAllAsserts
    \/ SaveOtherFiles

Spec == Init /\ [][Next]_vars

---------------------------------------------------------------------------
(* A second pass, by a new LinkerWriter, over the Document read again from  *)
(* the same configuration: its maps are new HashMaps, iterated in an order *)
(* of their own.                                                           *)

Outputs == [buffer |-> w.buffer, files_paths |-> w.files_paths,
            linker_symbols |-> w.linker_symbols,
            dep_out |-> dep_out, header_out |-> header_out]

Restart ==
    /\ pc = "done"
    /\ first = None
    /\ first' = Some(Outputs)
    /\ w' = new(d, rs)
    /\ pc' = "segments"
    /\ idx' = 1
    /\ calls' = <<>>
    /\ dep_out' = <<>>
    /\ header_out' = <<>>
    /\ UNCHANGED <<d, rs>>

NextTwice == Next \/ Restart

SpecTwice == Init /\ [][NextTwice]_vars

---------------------------------------------------------------------------
(* The same LinkerWriter handed the segments a second time.  `first` keeps  *)
(* the outputs the engine had when it was entered again.                    *)

\* add_all_segments called again, after it has returned
AddAllSegmentsAgain ==
    /\ pc = "entry"
    /\ first = None
    /\ first' = Some(Outputs)
    /\ pc' = "segments"
    /\ idx' = 1
    /\ UNCHANGED <<d, rs, w, calls, dep_out, header_out>>

\* add_segment called after add_single_segment has returned
AddSegmentAfterSingle ==
    /\ pc = "entry"
    /\ first = None
    /\ w.single_segment
    /\ first' = Some(Outputs)
    /\ \E ho \in HashOrders(d.segments[1]) :
          /\ w' = add_segment(w, d.segments[1], ho)
          /\ calls' = Append(calls, Call("add_segment", 1, w, w'))
          /\ pc' = Outcome(w', "entry")
    /\ UNCHANGED <<d, rs, idx, dep_out, header_out>>

NextAgain == Next \/ AddAllSegmentsAgain \/ AddSegmentAfterSingle

SpecAgain == Init /\ [][NextAgain]_vars

---------------------------------------------------------------------------
(* The section walk of one file, over every section list and section_order *)

WalkNames == {".text", ".data", ".rodata", ".bss"}

OrderNames == {".text", ".data", ".rodata"}

WalkLists ==
    {l \in UNION {[1..n -> WalkNames] : n \in 0..MaxWalk} :
        \A i, j \in 1..Len(l) : l[i] = l[j] => i = j}

\* every map from some of OrderNames to OrderNames
WalkOrders == UNION {[K -> OrderNames] : K \in SUBSET OrderNames}

WalkDocument(l, order) ==
    [settings |-> Settings(FALSE),
     segments |-> << [MkSegment(1, [vram_class |-> None, pred |-> NoPred], Layouts[1])
                        EXCEPT !.alloc_sections = l, !.noload_sections = <<>>,
                               !.gp_info = None,
                               !.files = << Object("a.o", order, KeepAbsent, NoPred) >>] >>,
     vram_classes |-> <<>>, symbol_assignments |-> <<>>, required_symbols |-> <<>>,
     asserts |-> <<>>, entry |-> None]

InitWalk ==
    /\ d \in {WalkDocument(l, order) : l \in WalkLists, order \in WalkOrders}
    /\ rs = [tags |-> {}, emit_version_comment |-> FALSE]
    /\ w = new(d, rs)
    /\ pc = "walk"
    /\ idx = 1
    /\ calls = <<>>
    /\ dep_out = <<>>
    /\ header_out = <<>>
    /\ first = None

\* one turn of the loop of write_segment: emit_section for the next section
EmitSection ==
    /\ pc = "walk"
    /\ idx <= Len(d.segments[1].alloc_sections)
    /\ \E ho \in HashOrders(d.segments[1]) :
          /\ w' = emit_section(w, d.segments[1], d.segments[1].alloc_sections[idx],
                               d.segments[1].alloc_sections, ho)
          /\ calls' = Append(calls, Call("emit_section", idx, w, w'))
    /\ idx' = idx + 1
    /\ UNCHANGED <<d, rs, pc, dep_out, header_out, first>>

NextWalk == EmitSection

SpecWalk == InitWalk /\ [][NextWalk]_vars

---------------------------------------------------------------------------
(* The section walk of one file of every kind: an object or an archive     *)
(* under every keep policy, with and without a redirected section; a pad    *)
(* and a linker offset declared at a listed section, at a subgroup section  *)
(* and at a section of no list, alone and after an object whose .rodata is  *)
(* redirected; a group of two objects.                                      *)

FileList == <<".text", ".rodata", ".data">>

KeepPolicies ==
    {KeepAbsent, KeepAll(TRUE), KeepAll(FALSE)} \cup {KeepWhich(S) : S \in SUBSET SeqToSet(FileList)}

FileOrders == {EmptyMap, ".rodata" :> ".data", ".text" :> ".data"}

MarkerSections == {".text", ".rodata", ".data", ".text.hot", ".bss"}

MarkerFiles ==
    {Pad("10", sec, NoPred) : sec \in MarkerSections}
    \cup {LinkerOffset("mark", sec, NoPred) : sec \in MarkerSections}

WalkFiles ==
    {<<Object("a.o", order, keep, NoPred)>> : order \in FileOrders, keep \in KeepPolicies}
    \cup {<<Archive("lib.a", "m.o", order, keep, NoPred)>> :
             order \in FileOrders, keep \in KeepPolicies}
    \cup {<<m>> : m \in MarkerFiles}
    \cup {<<Object("a.o", ".rodata" :> ".data", KeepAbsent, NoPred), m>> : m \in MarkerFiles}
    \cup {<<Group("g", <<Object("c.o", order, KeepAbsent, NoPred),
                         Object("y.o", EmptyMap, KeepAbsent, NoPred)>>, NoPred)>> :
             order \in FileOrders}

FileDocument(fs) ==
    [WalkDocument(FileList, EmptyMap) EXCEPT
        !.segments[1].sections_subgroups = ".text" :> <<".text.hot">>,
        !.segments[1].files = fs]

InitFile ==
    /\ d \in {FileDocument(fs) : fs \in WalkFiles}
    /\ rs = [tags |-> {}, emit_version_comment |-> FALSE]
    /\ w = new(d, rs)
    /\ pc = "walk"
    /\ idx = 1
    /\ calls = <<>>
    /\ dep_out = <<>>
    /\ header_out = <<>>
    /\ first = None

NextFile == EmitSection

SpecFile == InitFile /\ [][NextFile]_vars

---------------------------------------------------------------------------
(* The section walk under subgroup mappings with and without a cycle, for   *)
(* a segment with no file, an object, an object whose predicate is false,   *)
(* an object whose .text is redirected and an empty group, in normal mode   *)
(* and referencing partial objects.  A call depth beyond MaxDepth stands    *)
(* for the recursion that never returns: no mapping without a cycle below   *)
(* reaches that depth.                                                      *)

CycleList == <<".text", ".data">>

CycleSubgroups ==
    {EmptyMap,
     ".text" :> <<".text.hot">>,
     ".text" :> <<".text">>,
     (".text" :> <<".text.hot">>) @@ (".text.hot" :> <<".text">>),
     ".bss" :> <<".bss">>}

CycleFiles ==
    {<<>>,
     <<Object("a.o", EmptyMap, KeepAbsent, NoPred)>>,
     <<Object("a.o", EmptyMap, KeepAbsent, Pred({}, {}, {"never"}, {}))>>,
     <<Object("a.o", ".text" :> ".data", KeepAbsent, NoPred)>>,
     <<Group("g", <<>>, NoPred)>>}

CycleDocument(sub, fs) ==
    [WalkDocument(CycleList, EmptyMap) EXCEPT
        !.segments[1].sections_subgroups = sub,
        !.segments[1].files = fs]

InitCycle ==
    /\ d \in {CycleDocument(sub, fs) : sub \in CycleSubgroups, fs \in CycleFiles}
    /\ rs = [tags |-> {}, emit_version_comment |-> FALSE]
    /\ w \in {new(d, rs), new_reference_partial_objects(d, rs)}
    /\ pc = "walk"
    /\ idx = 1
    /\ calls = <<>>
    /\ dep_out = <<>>
    /\ header_out = <<>>
    /\ first = None

NextCycle == EmitSection

SpecCycle == InitCycle /\ [][NextCycle]_vars

---------------------------------------------------------------------------
(* One pass over a document whose directives all carry one predicate *)

Preds == [exclude_if_any : SUBSET Tags, exclude_if_all : SUBSET Tags,
          include_if_any : SUBSET Tags, include_if_all : SUBSET Tags]

WithPred(e, p) ==
    [e EXCEPT !.exclude_if_any = p.exclude_if_any, !.exclude_if_all = p.exclude_if_all,
              !.include_if_any = p.include_if_any, !.include_if_all = p.include_if_all]

PredDocument(p) ==
    [settings |-> Settings(FALSE),
     segments |->
        << [MkSegment(1, [vram_class |-> Some("c1"), pred |-> p], Layouts[1])
                EXCEPT !.gp_info = None,
                       !.files = << Object("a.o", EmptyMap, KeepAbsent, NoPred) >>],
           [MkSegment(2, [vram_class |-> None, pred |-> NoPred], Layouts[1])
                EXCEPT !.gp_info = Some(GpInfo(".data", p)),
                       !.files = << Object("f.o", EmptyMap, KeepAbsent, p) >>] >>,
     vram_classes |-> VramClasses,
     symbol_assignments |->
        << WithPred([name |-> "sa", value |-> <<"0x1">>, provide |-> FALSE, hidden |-> FALSE,
                     exclude_if_any |-> {}, exclude_if_all |-> {},
                     include_if_any |-> {}, include_if_all |-> {}], p) >>,
     required_symbols |->
        << WithPred([name |-> "rq", exclude_if_any |-> {}, exclude_if_all |-> {},
                     include_if_any |-> {}, include_if_all |-> {}], p) >>,
     asserts |->
        << WithPred([check |-> "chk", error_message |-> "msg",
                     exclude_if_any |-> {}, exclude_if_all |-> {},
                     include_if_any |-> {}, include_if_all |-> {}], p) >>,
     entry |-> None]

InitPred ==
    /\ d \in {PredDocument(p) : p \in Preds}
    /\ rs \in [tags : SUBSET Tags, emit_version_comment : {FALSE}]
    /\ w = new(d, rs)
    /\ pc = "segments"
    /\ idx = 1
    /\ calls = <<>>
    /\ dep_out = <<>>
    /\ header_out = <<>>
    /\ first = None

NextPred ==
    \/ BeginSections
    \/ AddSegment
    \/ EndSections
    \/ AddEntry
    \/ AddAllSymbolAssignments
    \/ AddAllRequiredSymbols
    \/ AddAllAsserts
    \/ SaveOtherFiles

SpecPred == InitPred /\ [][NextPred]_vars

---------------------------------------------------------------------------
(* Normal mode over every way of placing an address class: a class k with   *)
(* or without a fixed address, an anchor symbol and classes to follow,      *)
(* named by the first segment; with or without a fixed _gp and an end       *)
(* alignment of the first segment.                                          *)

FollowLists == {<<>>, <<"c1">>, <<"c2">>, <<"c1", "c2">>, <<"c2", "c1">>}

ClassConfigs ==
    [name : {"k"},
     fixed_vram : {None, Some("80400000")},
     fixed_symbol : {None, Some("anchor")},
     follows_classes : FollowLists,
     emitted : {FALSE}]

ClassDocument(k, gp, align, second) ==
    [PredDocument(NoPred) EXCEPT
        !.settings = [Settings(FALSE) EXCEPT !.hardcoded_gp_value = gp],
        !.segments =
            << [MkSegment(1, [vram_class |-> Some("k"), pred |-> NoPred], Layouts[1])
                    EXCEPT !.segment_end_align = align],
               MkSegment(2, [vram_class |-> second, pred |-> Pred({"A"}, {}, {}, {})],
                         Layouts[3]) >>,
        !.vram_classes = VramClasses \o <<k>>]

ClassDocuments ==
    {ClassDocument(k, gp, align, second) :
        k \in ClassConfigs, gp \in {None, Some("80008000")},
        align \in {None, Some("16")}, second \in {None, Some("k"), Some("c2")}}

InitClass ==
    /\ d \in ClassDocuments
    /\ rs \in [tags : {{}, {"A"}}, emit_version_comment : {FALSE}]
    /\ w = new(d, rs)
    /\ pc = "segments"
    /\ idx = 1
    /\ calls = <<>>
    /\ dep_out = <<>>
    /\ header_out = <<>>
    /\ first = None

NextClass ==
    \/ BeginSections
    \/ AddSegment
    \/ EndSections
    \/ AddEntry
    \/ AddAllSymbolAssignments
    \/ AddAllRequiredSymbols
    \/ AddAllAsserts
    \/ SaveOtherFiles

SpecClass == InitClass /\ [][NextClass]_vars

---------------------------------------------------------------------------
(* Normal mode over the settings end_sections reads: the two allow lists,   *)
(* the deny list and the discard wildcard; the first segment with or        *)
(* without a class, the second of class c2 and emitted only without tag A.  *)

CloseSettings ==
    {[Settings(FALSE) EXCEPT !.sections_allowlist = allow,
                             !.sections_allowlist_extra = extra,
                             !.sections_denylist = deny,
                             !.discard_wildcard_section = wildcard] :
        allow \in {<<>>, <<".al1", ".al2">>}, extra \in {<<>>, <<".ex">>},
        deny \in {<<>>, <<".note">>, <<".note", ".comment">>}, wildcard \in BOOLEAN}

CloseDocuments ==
    {[PredDocument(NoPred) EXCEPT
        !.settings = st,
        !.segments =
            << MkSegment(1, [vram_class |-> c, pred |-> NoPred], Layouts[1]),
               MkSegment(2, [vram_class |-> Some("c2"), pred |-> Pred({"A"}, {}, {}, {})],
                         Layouts[3]) >>] :
        st \in CloseSettings, c \in {None, Some("c1")}}

InitClose ==
    /\ d \in CloseDocuments
    /\ rs \in [tags : {{}, {"A"}}, emit_version_comment : {FALSE}]
    /\ w = new(d, rs)
    /\ pc = "segments"
    /\ idx = 1
    /\ calls = <<>>
    /\ dep_out = <<>>
    /\ header_out = <<>>
    /\ first = None

NextClose ==
    \/ BeginSections
    \/ AddSegment
    \/ EndSections
    \/ AddEntry
    \/ AddAllSymbolAssignments
    \/ AddAllRequiredSymbols
    \/ AddAllAsserts
    \/ SaveOtherFiles

SpecClose == InitClose /\ [][NextClose]_vars

---------------------------------------------------------------------------
(* Two segments under every combination of the four sources of an address: *)
(* the first with or without fixed_vram, fixed_symbol, follows_segment      *)
(* (naming the second) and a vram class, the second with or without         *)
(* follows_segment (naming the first) and a vram class; the first segment   *)
(* with and without a predicate.  Class c2 follows class c1.                *)

FirstAddresses ==
    [fixed_vram : {None, Some("80100000")},
     fixed_symbol : {None, Some("anchor")},
     follows_segment : {None, Some("s2")},
     vram_class : {None, Some("c1"), Some("c2")}]

SecondAddresses ==
    [fixed_vram : {None},
     fixed_symbol : {None},
     follows_segment : {None, Some("s1")},
     vram_class : {None, Some("c1"), Some("c2")}]

AddressSegment(i, a, p) ==
    [MkSegment(i, [vram_class |-> a.vram_class, pred |-> p], Layouts[1])
        EXCEPT !.fixed_vram = a.fixed_vram,
               !.fixed_symbol = a.fixed_symbol,
               !.follows_segment = a.follows_segment,
               !.gp_info = None,
               !.files = << Object("a.o", EmptyMap, KeepAbsent, NoPred) >>]

AddressDocument(a1, a2, p) ==
    [PredDocument(NoPred) EXCEPT
        !.segments = << AddressSegment(1, a1, p), AddressSegment(2, a2, NoPred) >>]

InitAddress ==
    /\ d \in {AddressDocument(a1, a2, p) :
                 a1 \in FirstAddresses, a2 \in SecondAddresses, p \in SegPreds}
    /\ rs \in [tags : {{}, {"A"}}, emit_version_comment : {FALSE}]
    /\ w = new(d, rs)
    /\ pc = "segments"
    /\ idx = 1
    /\ calls = <<>>
    /\ dep_out = <<>>
    /\ header_out = <<>>
    /\ first = None

NextAddress ==
    \/ BeginSections
    \/ AddSegment
    \/ EndSections
    \/ AddEntry
    \/ AddAllSymbolAssignments
    \/ AddAllRequiredSymbols
    \/ AddAllAsserts
    \/ SaveOtherFiles

SpecAddress == InitAddress /\ [][NextAddress]_vars

---------------------------------------------------------------------------
(* Passes that fail inside a segment: one segment in single-segment mode,   *)
(* two in normal mode, the files of a segment being an object, an object    *)
(* and an archive whose path is not converted, or a group holding an object *)
(* whose path is not converted; the first segment of no class, of class c1  *)
(* or of a class the document does not have.                                *)

BalanceFiles ==
    {<< Object("a.o", EmptyMap, KeepAbsent, NoPred) >>,
     << Object("a.o", EmptyMap, KeepAbsent, NoPred),
        Archive("{opt}", "m.o", EmptyMap, KeepAbsent, NoPred) >>,
     << Group("g", << Object("c.o", EmptyMap, KeepAbsent, NoPred),
                      Object("{opt}", EmptyMap, KeepAbsent, NoPred) >>, NoPred) >>}

BalanceSegment(i, class, fs, l) ==
    [MkSegment(i, [vram_class |-> class, pred |-> NoPred], Layouts[l])
        EXCEPT !.gp_info = None, !.files = fs]

BalanceDocuments ==
    {[PredDocument(NoPred) EXCEPT
         !.settings = Settings(TRUE),
         !.segments = << BalanceSegment(1, class, fs, l) >>] :
        class \in {None, Some("c1"), Some("zz")}, fs \in BalanceFiles, l \in {1, 3}}
    \cup
    {[PredDocument(NoPred) EXCEPT
         !.segments = << BalanceSegment(1, class, fs1, 3), BalanceSegment(2, None, fs2, 1) >>] :
        class \in {None, Some("c1"), Some("zz")}, fs1 \in BalanceFiles, fs2 \in BalanceFiles}

InitBalance ==
    /\ d \in BalanceDocuments
    /\ rs = [tags |-> {}, emit_version_comment |-> FALSE]
    /\ w = new(d, rs)
    /\ pc = "segments"
    /\ idx = 1
    /\ calls = <<>>
    /\ dep_out = <<>>
    /\ header_out = <<>>
    /\ first = None

NextBalance ==
    \/ AddSingleSegment
    \/ BeginSections
    \/ AddSegment
    \/ EndSections
    \/ AddEntry
    \/ AddAllSymbolAssignments
    \/ AddAllRequiredSymbols
    \/ AddAllAsserts
    \/ SaveOtherFiles

SpecBalance == InitBalance /\ [][NextBalance]_vars

---------------------------------------------------------------------------
(* What the properties below read from a state *)

\* positions of the buffer after position lo, up to position hi
Between(lo, hi) == {j \in 1..Len(w.buffer) : lo < j /\ j <= hi}

SymAt(j, sym) == w.buffer[j].op = "sym" /\ w.buffer[j].a = sym

IsRaise(l) == Len(l.b) > 0 /\ l.b[1] = "MAX("

Min(S) == CHOOSE m \in S : \A n \in S : m <= n

Count(s, e) == Cardinality({i \in 1..Len(s) : s[i] = e})

NoDuplicates(s) == \A i, j \in 1..Len(s) : s[i] = s[j] => i = j

ClassNames == {d.vram_classes[i].name : i \in 1..Len(d.vram_classes)}

\* lines that define the start symbol of class c (the raises of follows_classes aside)
ClassStartDefs(c) ==
    {j \in 1..Len(w.buffer) : SymAt(j, vram_class_start(c)) /\ ~IsRaise(w.buffer[j])}

\* lines that set the end symbol of class c to zero
ClassEndInits(c) ==
    {j \in 1..Len(w.buffer) : SymAt(j, vram_class_end(c)) /\ w.buffer[j].b = <<"0x00000000">>}

\* lines that raise the end symbol of class c
ClassEndRaises(c) ==
    {j \in 1..Len(w.buffer) : SymAt(j, vram_class_end(c)) /\ IsRaise(w.buffer[j])}

\* the segments of the document that name class c
RefSegments(c) == {i \in 1..Len(d.segments) : d.segments[i].vram_class = Some(c)}

\* the add_segment calls made so far that emitted a segment of class c
EmittedRefCalls(c) ==
    {k \in 1..Len(calls) :
        /\ calls[k].fn = "add_segment"
        /\ calls[k].err = "none"
        /\ SegmentShouldEmit(d.segments[calls[k].i])
        /\ d.segments[calls[k].i].vram_class = Some(c)}

InCall(j, k) == calls[k].b0 < j /\ j <= calls[k].b1

---------------------------------------------------------------------------
(* C1 *)

\* C1, as stated: when add_all_segments has returned, every class that some
\* segment of the document references has its start symbol and its zero end
\* symbol defined exactly once, in the lines of the first segment in document
\* order that references it, and a class referenced by no segment has neither.
C1_DefinedAtFirstReferencingSegment ==
    pc = "entry" =>
        \A c \in ClassNames :
            IF RefSegments(c) = {}
            THEN ClassStartDefs(c) = {} /\ ClassEndInits(c) = {}
            ELSE /\ Cardinality(ClassStartDefs(c)) = 1
                 /\ Cardinality(ClassEndInits(c)) = 1
                 /\ \A j \in ClassStartDefs(c) \cup ClassEndInits(c) :
                        InCall(j, Min(RefSegments(c)))

\* C1, amended: at every point of a pass, a class has its start symbol and its
\* zero end symbol defined exactly once if add_segment has emitted (predicate
\* true) a segment that references it, in the lines of the first such segment,
\* never again for a later one; and has neither otherwise (no emitted
\* reference, or single-segment mode).
C1_DefinedOnceAtFirstEmittedReference ==
    \A c \in ClassNames :
        IF EmittedRefCalls(c) = {}
        THEN ClassStartDefs(c) = {} /\ ClassEndInits(c) = {}
        ELSE /\ Cardinality(ClassStartDefs(c)) = 1
             /\ Cardinality(ClassEndInits(c)) = 1
             /\ \A j \in ClassStartDefs(c) \cup ClassEndInits(c) :
                    InCall(j, Min(EmittedRefCalls(c)))

\* two emitted segments of one class, the pass over
C1_TwoSegmentsOfOneClass ==
    /\ pc = "entry"
    /\ \E c \in ClassNames : Cardinality(EmittedRefCalls(c)) >= 2

---------------------------------------------------------------------------
(* C2 *)

\* C2, as stated: every segment of a class that a pass emits writes, among its
\* own lines and after the line that defines its vram end symbol, exactly one
\* raise of the class end symbol, to MAX(class end, segment vram end).
C2_EveryEmittedSegmentRaises ==
    \A c \in ClassNames :
        \A k \in 1..Len(calls) :
            (/\ calls[k].err = "none"
             /\ calls[k].b1 > calls[k].b0
             /\ d.segments[calls[k].i].vram_class = Some(c))
                => \E j \in ClassEndRaises(c) :
                      /\ InCall(j, k)
                      /\ \A j2 \in ClassEndRaises(c) : InCall(j2, k) => j2 = j
                      /\ w.buffer[j].b =
                            MaxExpr(vram_class_end(c),
                                    segment_vram_end(<<d.segments[calls[k].i].name>>))
                      /\ \E e \in Between(calls[k].b0, j - 1) :
                            SymAt(e, segment_vram_end(<<d.segments[calls[k].i].name>>))

\* C2, amended: every segment of a class that add_segment emits writes, among
\* its own lines and after the line that defines its vram end symbol, exactly
\* one raise of the class end symbol, to MAX(class end, segment vram end); the
\* raises of a class end symbol are those of its emitted segments, one each,
\* and add_single_segment writes none.
C2_ClassEndRaisedOncePerSegment ==
    \A c \in ClassNames :
        /\ \A k \in EmittedRefCalls(c) :
              \E j \in ClassEndRaises(c) :
                 /\ InCall(j, k)
                 /\ \A j2 \in ClassEndRaises(c) : InCall(j2, k) => j2 = j
                 /\ w.buffer[j].b =
                       MaxExpr(vram_class_end(c),
                               segment_vram_end(<<d.segments[calls[k].i].name>>))
                 /\ \E e \in Between(calls[k].b0, j - 1) :
                       SymAt(e, segment_vram_end(<<d.segments[calls[k].i].name>>))
        /\ \A j \in ClassEndRaises(c) : \E k \in EmittedRefCalls(c) : InCall(j, k)

\* a class whose end symbol two emitted segments have raised
C2_TwoRaisesOfOneClass ==
    /\ pc = "entry"
    /\ \E c \in ClassNames :
          Cardinality(EmittedRefCalls(c)) = 2 /\ Cardinality(ClassEndRaises(c)) = 2

---------------------------------------------------------------------------
(* C3, C4: the walk of one file *)

WalkSegment == d.segments[1]

WalkFile == WalkSegment.files[1]

WalkList == WalkSegment.alloc_sections

\* the section names of the selectors among lines lo+1 .. hi of buffer b
RECURSIVE SelectorSections(_, _, _)
SelectorSections(b, lo, hi) ==
    IF lo >= hi THEN <<>>
    ELSE (IF b[lo + 1].op = "sel" THEN <<b[lo + 1].b[1]>> ELSE <<>>)
            \o SelectorSections(b, lo + 1, hi)

\* the names the k-th emit_section call wrote selectors for, in order
EmittedAt(k) == SelectorSections(w.buffer, calls[k].b0, calls[k].b1)

\* the writer as the k-th call found it
WriterBefore(k) ==
    [w EXCEPT !.buffer = SubSeq(@, 1, calls[k].b0),
              !.files_paths = SubSeq(@, 1, calls[k].p0),
              !.linker_symbols = SubSeq(@, 1, calls[k].s0)]

SourcesOf(S) == {n \in DOMAIN WalkFile.section_order : WalkFile.section_order[n] = S}

\* C3, as stated: what emit_section writes at a section is the same for every
\* iteration order of section_order; the names emitted there come in the order
\* of their positions in the walked list; and a redirected source comes ahead
\* of the destination's own selector only if it is in the list ahead of the
\* destination.
C3_SourcesInListOrder ==
    \A k \in 1..Len(calls) :
        /\ \A ho \in HashOrders(WalkSegment) :
              emit_section(WriterBefore(k), WalkSegment, WalkList[calls[k].i],
                           WalkList, ho).buffer
                = SubSeq(w.buffer, 1, calls[k].b1)
        /\ \A p, q \in 1..Len(EmittedAt(k)) :
              (p < q /\ Contains(WalkList, EmittedAt(k)[p])
                     /\ Contains(WalkList, EmittedAt(k)[q]))
                 => Position(WalkList, EmittedAt(k)[p]) < Position(WalkList, EmittedAt(k)[q])
        /\ \A p, q \in 1..Len(EmittedAt(k)) :
              (p < q /\ EmittedAt(k)[q] = WalkList[calls[k].i]
                     /\ EmittedAt(k)[p] # WalkList[calls[k].i])
                 => /\ Contains(WalkList, EmittedAt(k)[p])
                    /\ Position(WalkList, EmittedAt(k)[p]) < calls[k].i

\* C4, as stated: with a non-empty section_order, at section S: no selector
\* for S when S is a key; when S is a value, one selector for every key that
\* maps to S, and one for S itself exactly when S is not a key.
C4_KeyNeverEmittedAtItself ==
    \A k \in 1..Len(calls) :
        DOMAIN WalkFile.section_order # {} =>
            /\ WalkList[calls[k].i] \in DOMAIN WalkFile.section_order
                  => Count(EmittedAt(k), WalkList[calls[k].i]) = 0
            /\ SourcesOf(WalkList[calls[k].i]) # {}
                  => /\ \A n \in SourcesOf(WalkList[calls[k].i]) : Count(EmittedAt(k), n) = 1
                     /\ (WalkList[calls[k].i] \notin DOMAIN WalkFile.section_order
                            => Count(EmittedAt(k), WalkList[calls[k].i]) = 1)

\* C4, amended: with a non-empty section_order, at section S the selectors
\* emitted are one for every key that maps to S (S itself when S maps to S),
\* one for S when S is not a key, and no other: a key that maps to another
\* section gets no selector at itself.
C4_SelectorsAtSection ==
    \A k \in 1..Len(calls) :
        DOMAIN WalkFile.section_order # {} =>
            \A n \in WalkNames \cup OrderNames :
                Count(EmittedAt(k), n) =
                    IF \/ n \in SourcesOf(WalkList[calls[k].i])
                       \/ (n = WalkList[calls[k].i] /\ n \notin DOMAIN WalkFile.section_order)
                    THEN 1 ELSE 0

\* a section that is no key, reached with two sources mapped to it
C4_TwoSourcesAtDestination ==
    \E k \in 1..Len(calls) :
        /\ Cardinality(SourcesOf(WalkList[calls[k].i])) = 2
        /\ WalkList[calls[k].i] \notin DOMAIN WalkFile.section_order
        /\ Len(EmittedAt(k)) = 3

---------------------------------------------------------------------------
(* C5 *)

ListedNames(segment) ==
    SeqToSet(segment.alloc_sections) \cup SeqToSet(segment.noload_sections)

SubgroupNames(segment) ==
    UNION {SeqToSet(segment.sections_subgroups[n]) : n \in DOMAIN segment.sections_subgroups}

\* the section names of the selectors the k-th call wrote
SelectorNames(k) ==
    {w.buffer[j].b[1] : j \in {i \in Between(calls[k].b0, calls[k].b1) : w.buffer[i].op = "sel"}}

\* C5, as stated: every section name in a selector emitted for a segment is in
\* the segment's alloc_sections or noload_sections.
C5_SelectorsOnlyOfListedSections ==
    \A k \in 1..Len(calls) :
        SelectorNames(k) \subseteq ListedNames(d.segments[calls[k].i])

\* C5, amended: every section name in a selector emitted for a segment is in
\* the segment's alloc_sections or noload_sections, or is a key of the
\* section_order of one of its files, or is listed in its sections_subgroups.
C5_SelectorsOfListedRedirectedOrSubgroupSections ==
    \A k \in 1..Len(calls) :
        SelectorNames(k) \subseteq
            ListedNames(d.segments[calls[k].i])
                \cup OrderKeys(d.segments[calls[k].i].files)
                \cup SubgroupNames(d.segments[calls[k].i])

\* a pass that wrote a selector for a redirected source and one for a subgroup
\* section, neither in the lists of its segment
C5_UnlistedSelectors ==
    /\ pc = "entry"
    /\ \E k \in 1..Len(calls) :
          \E n \in SelectorNames(k) :
             /\ n \notin ListedNames(d.segments[calls[k].i])
             /\ n \in OrderKeys(d.segments[calls[k].i].files)
    /\ \E k \in 1..Len(calls) :
          \E n \in SelectorNames(k) :
             /\ n \notin ListedNames(d.segments[calls[k].i])
             /\ n \in SubgroupNames(d.segments[calls[k].i])

---------------------------------------------------------------------------
(* C6, C7: conditional inclusion *)

\* the four conditions, on a directive e and the active tags
FourConditionsHold(e) ==
    /\ (e.exclude_if_any = {} \/ \A t \in e.exclude_if_any : t \notin rs.tags)
    /\ (e.exclude_if_all = {} \/ \E t \in e.exclude_if_all : t \notin rs.tags)
    /\ (e.include_if_any = {} \/ \E t \in e.include_if_any : t \in rs.tags)
    /\ (e.include_if_all = {} \/ \A t \in e.include_if_all : t \in rs.tags)

LineWith(op, a) == \E j \in 1..Len(w.buffer) : w.buffer[j].op = op /\ w.buffer[j].a = a

\* C6: in a finished pass over a document whose segment s1, file f.o, gp_info,
\* symbol assignment, required symbol and assert all carry one predicate, each
\* of them is in the script if and only if the four conditions hold of the
\* predicate and the active tags.
C6_EmittedIffFourConditions ==
    pc = "done" =>
        /\ LineWith("sym", segment_rom_start(<<"s1">>)) <=> FourConditionsHold(d.segments[1])
        /\ LineWith("sel", d.settings.base_path \o <<"f.o">>)
              <=> FourConditionsHold(d.segments[2].files[1])
        /\ LineWith("assign", <<"_gp">>) <=> FourConditionsHold(Unwrap(d.segments[2].gp_info))
        /\ LineWith("assign", <<"sa">>) <=> FourConditionsHold(d.symbol_assignments[1])
        /\ LineWith("required", <<"rq">>) <=> FourConditionsHold(d.required_symbols[1])
        /\ LineWith("assert", <<"chk">>) <=> FourConditionsHold(d.asserts[1])

\* exclude_if_any = {A} under the tags {A, B}: the directives are left out
C6_ExcludedByOneTag ==
    /\ pc = "done"
    /\ d.segments[1].exclude_if_any = {"A"}
    /\ d.segments[1].exclude_if_all = {}
    /\ d.segments[1].include_if_any = {}
    /\ d.segments[1].include_if_all = {}
    /\ rs.tags = {"A", "B"}
    /\ ~LineWith("sym", segment_rom_start(<<"s1">>))
    /\ ~LineWith("assign", <<"sa">>)

\* the paths a call added to files_paths
PathsAddedBy(k) == {w.files_paths[j] : j \in (calls[k].p0 + 1)..calls[k].p1}

\* C7, as stated: a segment whose predicate is false contributes no line, no
\* symbol, no path and marks no class emitted, through add_segment and through
\* add_single_segment alike; a file whose predicate is false contributes no
\* path.
C7_FalsePredicateContributesNothing ==
    \A k \in 1..Len(calls) :
        /\ ~SegmentShouldEmit(d.segments[calls[k].i]) =>
              /\ calls[k].b1 = calls[k].b0
              /\ calls[k].s1 = calls[k].s0
              /\ calls[k].p1 = calls[k].p0
              /\ calls[k].e1 = calls[k].e0
        /\ \A f \in SeqToSet(d.segments[calls[k].i].files) :
              (f.kind = "Object" /\ ~FileShouldEmit(f))
                 => (d.settings.base_path \o d.segments[calls[k].i].dir \o f.path)
                        \notin PathsAddedBy(k)

---------------------------------------------------------------------------
(* C8 *)

\* C8, as stated: a second pass over the same Document under the same tags
\* ends with the script lines, the path order and the symbol order of the first.
C8_SecondPassIdentical ==
    (pc = "done" /\ IsSome(first)) => Unwrap(first) = Outputs

---------------------------------------------------------------------------
(* C9, C10: the exporters *)

\* the entries a of the lines of text with the given op, in order
RECURSIVE Entries(_, _)
Entries(text, op) ==
    IF text = <<>> THEN <<>>
    ELSE (IF Head(text).op = op THEN <<Head(text).a>> ELSE <<>>) \o Entries(Tail(text), op)

\* position of the first line of the buffer with the given op and entry
FirstLine(op, a) == Min({j \in 1..Len(w.buffer) : w.buffer[j].op = op /\ w.buffer[j].a = a})

\* list l holds, once each and in the order of their first lines in the buffer,
\* the entries of the buffer lines with the given op
ListsInFirstOrder(l, op) ==
    /\ SeqToSet(l) = {w.buffer[j].a : j \in {i \in 1..Len(w.buffer) : w.buffer[i].op = op}}
    /\ NoDuplicates(l)
    /\ \A p \in 1..(Len(l) - 1) : FirstLine(op, l[p]) < FirstLine(op, l[p + 1])

\* the paths of the Object and Archive files below `files` that pass their predicates
RECURSIVE EmittablePaths(_, _)
EmittablePaths(files, base) ==
    IF files = <<>> THEN {}
    ELSE (IF ~FileShouldEmit(Head(files)) THEN {}
          ELSE IF Head(files).kind \in {"Object", "Archive"} THEN {base \o Head(files).path}
          ELSE IF Head(files).kind = "Group"
               THEN EmittablePaths(Head(files).files, base \o Head(files).dir)
          ELSE {})
         \cup EmittablePaths(Tail(files), base)

\* C9: the dependency listing names, once each as prerequisite and once each as
\* a rule of its own, in the order of first reference, exactly the paths of the
\* selectors of the script; all of them paths of Object or Archive files that
\* pass their predicate, so that Pad, LinkerOffset and filtered files add none.
C9_DependenciesAreSelectorPaths ==
    pc = "done" =>
        /\ ListsInFirstOrder(Entries(dep_out, "prereq"), "sel")
        /\ Entries(dep_out, "rule") = Entries(dep_out, "prereq")
        /\ SeqToSet(Entries(dep_out, "prereq")) \subseteq
              UNION {EmittablePaths(d.segments[calls[k].i].files,
                                    d.settings.base_path \o d.segments[calls[k].i].dir)
                        : k \in 1..Len(calls)}

\* a finished pass with a path referenced by several selectors, another path,
\* a Pad line and a file left out by its predicate
C9_SharedPathPadAndFilteredFile ==
    /\ pc = "done"
    /\ Len(Entries(dep_out, "prereq")) >= 2
    /\ \E i, j \in 1..Len(w.buffer) :
          i < j /\ w.buffer[i].op = "sel" /\ w.buffer[j].op = "sel"
                /\ w.buffer[i].a = w.buffer[j].a
    /\ \E j \in 1..Len(w.buffer) : w.buffer[j].op = "pad"
    /\ \E k \in 1..Len(calls) :
          \E f \in SeqToSet(d.segments[calls[k].i].files) :
             f.kind = "Object" /\ ~FileShouldEmit(f) /\ calls[k].b1 > calls[k].b0

\* C10: the symbol header declares, once each and in the order of first
\* emission, exactly the names written as address markers in the script.
C10_HeaderDeclaresMarkers ==
    pc = "done" => ListsInFirstOrder(Entries(header_out, "extern"), "sym")

\* a finished pass with a marker written more than once and a linker-offset marker
C10_MarkerWrittenTwice ==
    /\ pc = "done"
    /\ \E i, j \in 1..Len(w.buffer) :
          i < j /\ w.buffer[i].op = "sym" /\ w.buffer[j].op = "sym"
                /\ w.buffer[i].a = w.buffer[j].a
    /\ LineWith("sym", linker_offset("mark"))
    /\ Len(Entries(header_out, "extern")) >= 8

---------------------------------------------------------------------------
(* C11: markers *)

Marker(start, end, size) == [start |-> start, end |-> end, size |-> size]

\* the markers write_segment / write_single_segment and add_segment write for a segment
SegmentMarkers(segment) ==
    {Marker(segment_rom_start(<<segment.name>>), segment_rom_end(<<segment.name>>),
            segment_rom_size(<<segment.name>>)),
     Marker(segment_vram_start(<<segment.name>>), segment_vram_end(<<segment.name>>),
            segment_vram_size(<<segment.name>>))}
    \cup {Marker(segment_vram_start(KindName(segment, noload)),
                 segment_vram_end(KindName(segment, noload)),
                 segment_vram_size(KindName(segment, noload))) : noload \in BOOLEAN}
    \cup {Marker(segment_section_start(<<segment.name>>, sec),
                 segment_section_end(<<segment.name>>, sec),
                 segment_section_size(<<segment.name>>, sec)) : sec \in ListedNames(segment)}

ScriptMarkers == UNION {SegmentMarkers(d.segments[i]) : i \in 1..Len(d.segments)}

ClassMarkers ==
    {Marker(vram_class_start(c), vram_class_end(c), vram_class_size(c)) : c \in ClassNames}

\* the symbol lines of the script
SymLines == {j \in 1..Len(w.buffer) : w.buffer[j].op = "sym"}

\* start written, later the end, and right after each end the size ABSOLUTE(end - start)
StartThenEndAndSize(t, syms) ==
    \A j \in syms :
        /\ w.buffer[j].a = t.end =>
              /\ \E i \in 1..(j - 1) : SymAt(i, t.start)
              /\ j < Len(w.buffer)
              /\ SymAt(j + 1, t.size)
              /\ w.buffer[j + 1].b = <<"ABSOLUTE(">> \o t.end \o <<" - ">> \o t.start \o <<")">>
        /\ w.buffer[j].a = t.size => j > 1 /\ SymAt(j - 1, t.end)
        /\ w.buffer[j].a = t.start => \E i \in (j + 1)..Len(w.buffer) : SymAt(i, t.end)

\* a class marker: the end set to zero right after the start, raised later, and
\* the size `end - start` written once, by end_sections
ClassStartEndSize(c, syms) ==
    /\ \A j \in syms :
          /\ w.buffer[j].a \in {vram_class_end(c), vram_class_size(c)}
                => \E i \in 1..(j - 1) : SymAt(i, vram_class_start(c))
          /\ (w.buffer[j].a = vram_class_end(c) /\ ~IsRaise(w.buffer[j]))
                => j > 1 /\ SymAt(j - 1, vram_class_start(c))
          /\ w.buffer[j].a = vram_class_start(c)
                => \E i \in (j + 1)..Len(w.buffer) : SymAt(i, vram_class_end(c))
          /\ w.buffer[j].a = vram_class_size(c) =>
                /\ w.buffer[j].b = vram_class_end(c) \o <<" - ">> \o vram_class_start(c)
                /\ \A i \in (j + 1)..Len(w.buffer) :
                      ~SymAt(i, vram_class_end(c)) /\ ~SymAt(i, vram_class_size(c))
    /\ (\E j \in syms : w.buffer[j].a = vram_class_size(c))
          <=> (w.finished /\ c \in EmittedClasses(w))

\* every symbol line of the script is a linker offset or part of a marker
MarkerNames == UNION {{t.start, t.end, t.size} : t \in ScriptMarkers \cup ClassMarkers}

OnlyMarkers(syms, names) ==
    \A j \in syms :
        w.buffer[j].a \in names \/ w.buffer[j].a[Len(w.buffer[j].a)] = "_OFFSET"

\* C11, as stated: every marker, class markers included, is a start assignment
\* followed later by an end assignment immediately followed by the size
\* assignment ABSOLUTE(end - start); no end or size without an earlier start.
C11_EveryMarkerEndThenSize ==
    LET syms == SymLines
    IN /\ OnlyMarkers(syms, MarkerNames)
       /\ \A t \in ScriptMarkers \cup ClassMarkers : StartThenEndAndSize(t, syms)

\* C11, amended: segment rom, segment vram, kind and per-section markers are a
\* start assignment followed later by an end assignment immediately followed
\* by the size ABSOLUTE(end - start); a class marker has its end set to zero
\* right after its start and raised later, and its size `end - start` written
\* once when the placement block is closed; no end or size without an earlier
\* start.
C11_MarkersStartEndSize ==
    LET syms == SymLines
    IN /\ OnlyMarkers(syms, MarkerNames)
       /\ \A t \in ScriptMarkers : StartThenEndAndSize(t, syms)
       /\ \A c \in ClassNames : ClassStartEndSize(c, syms)

\* a closed placement block with a segment marker and the size of a class
C11_SegmentAndClassMarkers ==
    /\ pc = "entry"
    /\ \E c \in ClassNames : LineWith("sym", vram_class_size(c))
    /\ \E i \in 1..Len(d.segments) :
          /\ LineWith("sym", segment_vram_size(<<d.segments[i].name>>))
          /\ LineWith("sym", segment_section_size(<<d.segments[i].name>>, ".text"))
          /\ LineWith("sym", segment_vram_size(KindName(d.segments[i], TRUE)))


---------------------------------------------------------------------------
(* FileInfoSerial::unserialize (file_info.rs)                               *)
(*                                                                         *)
(* A field of the raw record is an AbsentNullable<T>: Absent, or a Value.   *)
(* A path is a sequence of tokens, <<stem>> or <<stem, extension>>; the     *)
(* empty path is the empty sequence.  A Result is [ok |-> TRUE, v |-> _]   *)
(* or [ok |-> FALSE, e |-> _], the error carrying the names the program    *)
(* gives it, with ' where the program's text has a backquote.             *)

Absent == <<>>

Value(x) == <<x>>

Ok(v) == [ok |-> TRUE, v |-> v]

Err(e) == [ok |-> FALSE, e |-> e]

MissingValue(name) == [err |-> "MissingValue", name |-> name]

EmptyValue(name) == [err |-> "EmptyValue", name |-> name]

InvalidFieldCombo(field1, field2) ==
    [err |-> "InvalidFieldCombo", field1 |-> field1, field2 |-> field2]

has_value(f) == Len(f) > 0

\* a required field: its value, or the error that names it
get(f, name) == IF has_value(f) THEN Ok(f[1]) ELSE Err(MissingValue(name))

get_non_null(f, name, default) == IF has_value(f) THEN Ok(f[1]) ELSE Ok(default)

get_non_null_no_default(f, name) == IF has_value(f) THEN Ok(Some(f[1])) ELSE Ok(None)

\* FileKind::from_path: the suffix table; anything that is not an archive
\* is an object
from_path(p) == IF Len(p) = 2 /\ p[2] = ".a" THEN "Archive" ELSE "Object"

\* lines 59-67 and 82-92: a path that must be there and must not be empty
unserialize_required_path(self) ==
    IF ~get(self.path, "path").ok THEN get(self.path, "path")
    ELSE IF get(self.path, "path").v = <<>> THEN Err(EmptyValue("path"))
    ELSE Ok(get(self.path, "path").v)

\* lines 56-93: the path and the kind, Ok([p, k])
unserialize_kind_path(self) ==
    LET kind == get_non_null_no_default(self.kind, "kind").v
    IN IF IsSome(kind)
       THEN IF Unwrap(kind) \in {"Object", "Archive"}
            THEN IF ~unserialize_required_path(self).ok
                 THEN unserialize_required_path(self)
                 ELSE Ok([p |-> unserialize_required_path(self).v, k |-> Unwrap(kind)])
            ELSE IF has_value(self.path)
                 THEN Err(InvalidFieldCombo("kind: pad or kind: linker_offset", "path"))
                 ELSE Ok([p |-> <<>>, k |-> Unwrap(kind)])
       ELSE IF ~unserialize_required_path(self).ok
            THEN unserialize_required_path(self)
            ELSE Ok([p |-> unserialize_required_path(self).v,
                     k |-> from_path(unserialize_required_path(self).v)])

\* lines 95-106
unserialize_subfile(self, k) ==
    IF k \in {"Object", "LinkerOffset", "Pad"}
    THEN IF has_value(self.subfile)
         THEN Err(InvalidFieldCombo("subfile", "non 'kind: archive'"))
         ELSE Ok("*")
    ELSE get_non_null(self.subfile, "subfile", "*")

\* a pad_amount is accepted for every kind and is 0 where it is not given
unserialize_pad_amount_defaulted(self, k) ==
    get_non_null(self.pad_amount, "pad_amount", "0")

\* lines 108-119
unserialize_pad_amount(self, k) ==
    IF k \in {"Object", "LinkerOffset", "Archive"}
    THEN IF has_value(self.pad_amount)
         THEN Err(InvalidFieldCombo("pad_amount", "non 'kind: pad'"))
         ELSE Ok("0")
    ELSE get(self.pad_amount, "pad_amount")

\* a section is accepted for every kind and is empty where it is not given
unserialize_section_any_kind(self, k) ==
    get_non_null(self.section, "section", "")

\* lines 121-132
unserialize_section(self, k) ==
    IF k \in {"Object", "Archive"}
    THEN IF has_value(self.section)
         THEN Err(InvalidFieldCombo("section", "non 'kind: pad or kind: linker_offset'"))
         ELSE Ok("")
    ELSE get(self.section, "section")

\* lines 134-145
unserialize_linker_offset_name(self, k) ==
    IF k \in {"Object", "Pad", "Archive"}
    THEN IF has_value(self.linker_offset_name)
         THEN Err(InvalidFieldCombo("linker_offset_name", "non 'kind: linker_offset'"))
         ELSE Ok("")
    ELSE get(self.linker_offset_name, "linker_offset_name")

\* a section_order is accepted for every kind
unserialize_section_order_any_kind(self, k) ==
    get_non_null(self.section_order, "section_order", EmptyMap)

\* lines 147-160
unserialize_section_order(self, k) ==
    IF k \in {"Pad", "LinkerOffset"}
    THEN IF has_value(self.section_order)
         THEN Err(InvalidFieldCombo("section_order", "non 'kind: object' or 'kind: archive'"))
         ELSE Ok(EmptyMap)
    ELSE get_non_null(self.section_order, "section_order", EmptyMap)

\* lines 162-170
FileInfo(kp, subfile, pad_amount, section, linker_offset_name, section_order) ==
    [path |-> kp.p, kind |-> kp.k, subfile |-> subfile, pad_amount |-> pad_amount,
     section |-> section, linker_offset_name |-> linker_offset_name,
     section_order |-> section_order]

\* the fields checked from the last to the first
unserialize_fields_backwards(self, kp) ==
    IF ~unserialize_section_order(self, kp.k).ok
    THEN unserialize_section_order(self, kp.k)
    ELSE IF ~unserialize_linker_offset_name(self, kp.k).ok
         THEN unserialize_linker_offset_name(self, kp.k)
    ELSE IF ~unserialize_section(self, kp.k).ok THEN unserialize_section(self, kp.k)
    ELSE IF ~unserialize_pad_amount(self, kp.k).ok THEN unserialize_pad_amount(self, kp.k)
    ELSE IF ~unserialize_subfile(self, kp.k).ok THEN unserialize_subfile(self, kp.k)
    ELSE Ok(FileInfo(kp, unserialize_subfile(self, kp.k).v,
                     unserialize_pad_amount(self, kp.k).v,
                     unserialize_section(self, kp.k).v,
                     unserialize_linker_offset_name(self, kp.k).v,
                     unserialize_section_order(self, kp.k).v))

\* the steps after the kind is known, in the order of the code
unserialize_fields(self, kp) ==
    IF ~unserialize_subfile(self, kp.k).ok THEN unserialize_subfile(self, kp.k)
    ELSE IF ~unserialize_pad_amount(self, kp.k).ok THEN unserialize_pad_amount(self, kp.k)
    ELSE IF ~unserialize_section(self, kp.k).ok THEN unserialize_section(self, kp.k)
    ELSE IF ~unserialize_linker_offset_name(self, kp.k).ok
         THEN unserialize_linker_offset_name(self, kp.k)
    ELSE IF ~unserialize_section_order(self, kp.k).ok
         THEN unserialize_section_order(self, kp.k)
    ELSE Ok(FileInfo(kp, unserialize_subfile(self, kp.k).v,
                     unserialize_pad_amount(self, kp.k).v,
                     unserialize_section(self, kp.k).v,
                     unserialize_linker_offset_name(self, kp.k).v,
                     unserialize_section_order(self, kp.k).v))

\* the kind is always read off the path
unserialize_kind_from_path(self) ==
    IF ~unserialize_required_path(self).ok
    THEN unserialize_required_path(self)
    ELSE unserialize_fields(self, [p |-> unserialize_required_path(self).v,
                                   k |-> from_path(unserialize_required_path(self).v)])

\* lines 54-171
unserialize(self) ==
    IF ~unserialize_kind_path(self).ok THEN unserialize_kind_path(self)
    ELSE unserialize_fields(self, unserialize_kind_path(self).v)

---------------------------------------------------------------------------
(* Raw records, and the run that validates one *)

SerialKinds == {Absent, Value("Object"), Value("Archive"), Value("Pad"),
                Value("LinkerOffset")}

SerialPaths == {Absent, Value(<<>>), Value(<<"b", ".o">>), Value(<<"lib", ".a">>),
                Value(<<"raw">>)}

Serials ==
    [kind : SerialKinds,
     path : SerialPaths,
     subfile : {Absent, Value("m.o")},
     pad_amount : {Absent, Value("0x10")},
     section : {Absent, Value(".text")},
     linker_offset_name : {Absent, Value("off")},
     section_order : {Absent, Value(".data" :> ".text")}]

\* d is the raw record, w the Result once unserialize has run
InitUnserialize ==
    /\ d \in Serials
    /\ rs = [tags |-> {}, emit_version_comment |-> FALSE]
    /\ w = None
    /\ pc = "unserialize"
    /\ idx = 1
    /\ calls = <<>>
    /\ dep_out = <<>>
    /\ header_out = <<>>
    /\ first = None

Unserialize ==
    /\ pc = "unserialize"
    /\ w' = Some(unserialize(d))
    /\ pc' = IF unserialize(d).ok THEN "done" ELSE "failed"
    /\ UNCHANGED <<d, rs, idx, calls, dep_out, header_out, first>>

NextUnserialize == Unserialize

SpecUnserialize == InitUnserialize /\ [][NextUnserialize]_vars

---------------------------------------------------------------------------
(* What the properties of unserialize read from a state *)

Ran == pc \in {"done", "failed"}

Result == Unwrap(w)

\* the kind the record is validated as: the explicit one, else the one its
\* path gives; "none" when neither gives one
KindOf(self) ==
    IF has_value(self.kind) THEN self.kind[1]
    ELSE IF has_value(self.path) /\ self.path[1] # <<>> THEN from_path(self.path[1])
    ELSE "none"

CheckOrder == <<"path", "subfile", "pad_amount", "section", "linker_offset_name",
                "section_order">>

Forbidden(k) ==
    CASE k = "Object" -> {"subfile", "pad_amount", "section", "linker_offset_name"}
      [] k = "Archive" -> {"pad_amount", "section", "linker_offset_name"}
      [] k = "Pad" -> {"path", "subfile", "linker_offset_name", "section_order"}
      [] k = "LinkerOffset" -> {"path", "subfile", "pad_amount", "section_order"}
      [] OTHER -> {}

Required(k) ==
    CASE k = "Pad" -> {"pad_amount", "section"}
      [] k = "LinkerOffset" -> {"section", "linker_offset_name"}
      [] OTHER -> {"path"}

Optional(k) ==
    CASE k = "Object" -> {"section_order"}
      [] k = "Archive" -> {"subfile", "section_order"}
      [] OTHER -> {}

\* the error a valued forbidden field is rejected with
ComboOf(f) ==
    CASE f = "path" -> InvalidFieldCombo("kind: pad or kind: linker_offset", "path")
      [] f = "subfile" -> InvalidFieldCombo("subfile", "non 'kind: archive'")
      [] f = "pad_amount" -> InvalidFieldCombo("pad_amount", "non 'kind: pad'")
      [] f = "section" ->
            InvalidFieldCombo("section", "non 'kind: pad or kind: linker_offset'")
      [] f = "linker_offset_name" ->
            InvalidFieldCombo("linker_offset_name", "non 'kind: linker_offset'")
      [] f = "section_order" ->
            InvalidFieldCombo("section_order", "non 'kind: object' or 'kind: archive'")

ForbiddenGiven(self, f) == f \in Forbidden(KindOf(self)) /\ has_value(self[f])

RequiredMissing(self, f) == f \in Required(KindOf(self)) /\ ~has_value(self[f])

EmptyPath(self, f) == f = "path" /\ "path" \in Required(KindOf(self)) /\ self.path = Value(<<>>)

Violates(self, f) ==
    ForbiddenGiven(self, f) \/ RequiredMissing(self, f) \/ EmptyPath(self, f)

\* no field checked before f breaks a rule
FirstViolation(self, f) ==
    /\ Violates(self, f)
    /\ \A j \in 1..(Position(CheckOrder, f) - 1) : ~Violates(self, CheckOrder[j])

\* all the legal fields of the kind have a value and no other field has one
ExactlyLegalGiven(self) ==
    /\ KindOf(self) # "none"
    /\ \A f \in SeqToSet(CheckOrder) :
          has_value(self[f]) <=> f \in Required(KindOf(self)) \cup Optional(KindOf(self))

---------------------------------------------------------------------------
(* C12 *)

---------------------------------------------------------------------------
(* C13 *)

\* the error of the rule that field f breaks
ErrorOf(self, f) ==
    IF ForbiddenGiven(self, f) THEN ComboOf(f)
    ELSE IF RequiredMissing(self, f) THEN MissingValue(f)
    ELSE EmptyValue(f)

ViolatedFields(self) == {f \in SeqToSet(CheckOrder) : Violates(self, f)}

\* C13: the fields are checked in the order kind/path, subfile, pad_amount,
\* section, linker_offset_name, section_order; a record that breaks one or
\* several rules yields no FileInfo but the error of the field that comes
\* first in that order.
C13_ErrorOfEarliestStep ==
    Ran =>
      \A f \in SeqToSet(CheckOrder) :
         FirstViolation(d, f) => ~Result.ok /\ Result = Err(ErrorOf(d, f))

C13_ThreeRulesBroken ==
    /\ Ran
    /\ d.kind = Value("LinkerOffset")
    /\ ViolatedFields(d) = {"subfile", "section", "section_order"}
    /\ Result = Err(InvalidFieldCombo("subfile", "non 'kind: archive'"))

---------------------------------------------------------------------------
(* C14 *)

\* C14: without a kind, or with the kind Object or Archive, an absent path
\* is a MissingValue error for path and an empty path an EmptyValue error
\* for path; without a kind the record is validated as the record that
\* names the kind of its path explicitly; with the kind Pad or LinkerOffset
\* a path value is an InvalidFieldCombo error and an accepted record has
\* the empty path.
C14_PathAndKind ==
    Ran =>
      /\ d.kind \in {Absent, Value("Object"), Value("Archive")} =>
            /\ d.path = Absent => Result = Err(MissingValue("path"))
            /\ d.path = Value(<<>>) => Result = Err(EmptyValue("path"))
            /\ Result.ok => Result.v.path = d.path[1]
      /\ d.kind = Absent /\ has_value(d.path) /\ d.path # Value(<<>>) =>
            /\ Result = unserialize([d EXCEPT !.kind = Value(from_path(d.path[1]))])
            /\ Result.ok => Result.v.kind = from_path(d.path[1])
      /\ d.kind \in {Value("Pad"), Value("LinkerOffset")} =>
            /\ has_value(d.path) =>
                  Result = Err(InvalidFieldCombo("kind: pad or kind: linker_offset", "path"))
            /\ Result.ok => Result.v.path = <<>> /\ Result.v.kind = d.kind[1]

C14_ArchiveInferred ==
    /\ Ran
    /\ d.kind = Absent
    /\ d.path = Value(<<"lib", ".a">>)
    /\ has_value(d.subfile)
    /\ Result.ok
    /\ Result.v.kind = "Archive"
    /\ Result.v.subfile = "m.o"

---------------------------------------------------------------------------
(* C15 *)

RequiredFields(self) ==
    IF self.kind \in {Value("Pad"), Value("LinkerOffset")}
    THEN Required(self.kind[1])
    ELSE {}

MissingFields(self) == {f \in RequiredFields(self) : ~has_value(self[f])}

\* C15 as stated: a Pad or LinkerOffset record that lacks a required field
\* always fails with a missing-value error naming a field it lacks.
C15_AlwaysMissingValue ==
    Ran /\ MissingFields(d) # {} =>
       /\ ~Result.ok
       /\ Result.e.err = "MissingValue"
       /\ Result.e.name \in MissingFields(d)

\* C15: a Pad record without pad_amount or section, and a LinkerOffset
\* record without section or linker_offset_name, is rejected; the error is
\* the missing-value error naming the field when no field checked earlier
\* breaks a rule; an accepted record carries the values it was given for
\* its required fields, never a default.
C15_RequiredFieldNeverDefaulted ==
    Ran =>
      /\ \A f \in MissingFields(d) :
            /\ ~Result.ok
            /\ FirstViolation(d, f) => Result = Err(MissingValue(f))
      /\ Result.ok => \A f \in RequiredFields(d) : d[f] = Value(Result.v[f])

C15_LinkerOffsetWithoutName ==
    /\ Ran
    /\ d.kind = Value("LinkerOffset")
    /\ MissingFields(d) = {"linker_offset_name"}
    /\ Result = Err(MissingValue("linker_offset_name"))

---------------------------------------------------------------------------
(* C16 *)

\* C16: in single-segment mode with no segment or with several, the pass
\* ends in the failed assertion of add_all_segments, not in an error
\* result, and the engine is still as it was constructed: no SECTIONS line
\* or any other line, no symbol, no path, no call of add_single_segment.
C16_AbortsBeforeAnyOutput ==
    d.settings.single_segment_mode /\ Len(d.segments) # 1 =>
       /\ pc \in {"segments", "panicked"}
       /\ w = new(d, rs)
       /\ w.buffer = <<>>
       /\ w.linker_symbols = <<>>
       /\ w.files_paths = <<>>
       /\ ~Failed(w)
       /\ calls = <<>>

C16_TwoSegmentsAborted ==
    /\ d.settings.single_segment_mode
    /\ Len(d.segments) = 2
    /\ pc = "panicked"

---------------------------------------------------------------------------
(* C17 *)

SectionsLines == {j \in 1..Len(w.buffer) : w.buffer[j] = Line("ln", <<"SECTIONS">>, <<>>, <<>>)}

EnteredAgain == first # None

\* C17: the engine opens the SECTIONS block once and closes it once, every
\* segment is emitted between the two, and a second entry on the same
\* engine (add_all_segments again, or add_segment after add_single_segment)
\* never opens a block and leaves the script as it was.
C17_SectionsEnteredOnce ==
    /\ Cardinality(SectionsLines) <= 1
    /\ \A k \in 1..Len(calls) :
          calls[k].fn = "add_segment" /\ calls[k].b1 > calls[k].b0 =>
             SectionsLines # {} /\ \A j \in SectionsLines : j <= calls[k].b0
    /\ EnteredAgain => pc # "open"
    /\ EnteredAgain /\ pc \in {"entry", "panicked", "failed"} =>
          w.buffer = Unwrap(first).buffer

---------------------------------------------------------------------------
(* C18 *)

NamesMissingClass(segment) ==
    IsSome(segment.vram_class) /\ Unwrap(segment.vram_class) \notin ClassNames

AddSegmentStep == pc = "open" /\ idx <= Len(d.segments) /\ idx' = idx + 1

\* C18 as stated: every add_segment call for a segment naming a class the
\* document does not have returns the error and changes nothing.
C18_MissingClassAlwaysError ==
    [][AddSegmentStep /\ NamesMissingClass(d.segments[idx]) =>
          /\ pc' = "failed"
          /\ w' = MissingVramClassForSegment(w, d.segments[idx])]_vars

\* C18: an add_segment call for a segment whose predicate holds and that
\* names a class the document does not have returns
\* MissingVramClassForSegment with the names of the segment and of the
\* class, and the engine is otherwise as before the call: buffer, symbol
\* registry, paths and emitted flags of the classes unchanged.  When the
\* predicate of such a segment is false the call returns Ok and changes
\* nothing.  No other call returns the error.
C18_MissingClassErrorLeavesEngine ==
    [][AddSegmentStep =>
          /\ NamesMissingClass(d.segments[idx]) /\ SegmentShouldEmit(d.segments[idx]) =>
                /\ pc' = "failed"
                /\ w'.err = "MissingVramClassForSegment"
                /\ w'.err_segment = d.segments[idx].name
                /\ w'.err_vram_class = Unwrap(d.segments[idx].vram_class)
                /\ w' = [w EXCEPT !.err = w'.err, !.err_segment = w'.err_segment,
                                  !.err_vram_class = w'.err_vram_class]
          /\ NamesMissingClass(d.segments[idx]) /\ ~SegmentShouldEmit(d.segments[idx]) =>
                pc' = "open" /\ w' = w
          /\ pc' = "failed" =>
                NamesMissingClass(d.segments[idx]) /\ SegmentShouldEmit(d.segments[idx])]_vars

\* the second segment fails after the first, of class c1, has been emitted
C18_SecondSegmentFails ==
    /\ pc = "failed"
    /\ Len(calls) = 2
    /\ calls[1].b1 > calls[1].b0
    /\ calls[1].e1 # {}
    /\ calls[2].err = "MissingVramClassForSegment"
    /\ calls[2].b1 = calls[2].b0
    /\ w.err_segment = d.segments[2].name
    /\ w.err_vram_class = "cX"

---------------------------------------------------------------------------
(* C19 *)

ClassOf(c) == d.vram_classes[CHOOSE i \in 1..Len(d.vram_classes) : d.vram_classes[i].name = c]

\* lines that raise the start symbol of class c
ClassStartRaises(c) ==
    {j \in 1..Len(w.buffer) : SymAt(j, vram_class_start(c)) /\ IsRaise(w.buffer[j])}

\* what the start symbol of the class is assigned, and the number of raises
\* that follow the assignment
StartValue(vc) ==
    IF IsSome(vc.fixed_vram) THEN <<"0x", Unwrap(vc.fixed_vram)>>
    ELSE IF IsSome(vc.fixed_symbol) THEN <<Unwrap(vc.fixed_symbol)>>
    ELSE <<"0x00000000">>

StartRaiseCount(vc) ==
    IF IsSome(vc.fixed_vram) \/ IsSome(vc.fixed_symbol) THEN 0 ELSE Len(vc.follows_classes)

ClassStartAt(c, j) ==
    LET vc == ClassOf(c)
        n == StartRaiseCount(vc)
    IN /\ w.buffer[j].b = StartValue(vc)
       /\ \A i \in 1..n :
             w.buffer[j + i] = Line("sym", vram_class_start(c),
                                    MaxExpr(vram_class_start(c),
                                            vram_class_end(vc.follows_classes[i])), <<>>)
       /\ ClassStartRaises(c) = {j + i : i \in 1..n}
       /\ w.buffer[j + n + 1] = Line("sym", vram_class_end(c), <<"0x00000000">>, <<>>)

\* C19: the start symbol of an emitted class is assigned once: the fixed
\* address if the class has one, else its anchor symbol, else zero followed
\* at once by one raise to the end symbol of each class of follows_classes,
\* in the order of the list; with a fixed address or an anchor no raise of
\* the start symbol is written at all.
C19_ClassStartByPlacement ==
    \A c \in ClassNames :
       /\ c \in EmittedClasses(w) <=> ClassStartDefs(c) # {}
       /\ ClassStartDefs(c) = {} => ClassStartRaises(c) = {}
       /\ \A j \in ClassStartDefs(c) : ClassStartAt(c, j)

C19_FollowsTwoClasses ==
    /\ "k" \in EmittedClasses(w)
    /\ ClassOf("k").fixed_vram = None
    /\ ClassOf("k").fixed_symbol = None
    /\ ClassOf("k").follows_classes = <<"c2", "c1">>
    /\ Cardinality(ClassStartRaises("k")) = 2

---------------------------------------------------------------------------
(* C20 *)

\* the positions, among the lines of call k, of the lines that define sym
SymIn(k, sym) == {j \in Between(calls[k].b0, calls[k].b1) : SymAt(j, sym)}

\* the positions, among the lines of call k, of the lines equal to l
LineIn(k, l) == {j \in Between(calls[k].b0, calls[k].b1) : w.buffer[j] = l}

\* the output-section line of the alloc or noload block
OutIn(k, segment, noload) ==
    {j \in Between(calls[k].b0, calls[k].b1) :
        /\ w.buffer[j].op = "out"
        /\ w.buffer[j].a = <<".", segment.name>> \o (IF noload THEN <<".noload">> ELSE <<>>)}

AlignIn(k) == {j \in Between(calls[k].b0, calls[k].b1) : w.buffer[j].op = "align"}

One(S) == Cardinality(S) = 1

Before(S, T) == \A a \in S : \A b \in T : a < b

InOrder(sets) == \A p, q \in 1..Len(sets) : p < q => Before(sets[p], sets[q])

EmittedCalls ==
    {k \in 1..Len(calls) :
        calls[k].fn = "add_segment" /\ calls[k].err = "none" /\ calls[k].b1 > calls[k].b0}

SegmentOutputInOrder(k) ==
    LET segment == d.segments[calls[k].i]
        n == <<segment.name>>
        hi == calls[k].b1
        romStart == SymIn(k, segment_rom_start(n))
        vramStart == SymIn(k, segment_vram_start(n))
        alloc == OutIn(k, segment, FALSE)
        allocEnd == SymIn(k, segment_vram_size(KindName(segment, FALSE)))
        noload == OutIn(k, segment, TRUE)
        noloadEnd == SymIn(k, segment_vram_size(KindName(segment, TRUE)))
        advance == LineIn(k, Line("ln", <<"__romPos += SIZEOF(.", segment.name, ");">>,
                                  <<>>, <<>>))
        vramEnd == SymIn(k, segment_vram_end(n))
        vramSize == SymIn(k, segment_vram_size(n))
        romEnd == SymIn(k, segment_rom_end(n))
        romSize == SymIn(k, segment_rom_size(n))
        raise == {j \in Between(calls[k].b0, hi) :
                     w.buffer[j].op = "sym" /\ IsRaise(w.buffer[j])
                        /\ w.buffer[j].a \in {vram_class_end(c) : c \in ClassNames}}
    IN /\ \A S \in {romStart, vramStart, alloc, allocEnd, noload, noloadEnd, advance,
                    vramEnd, vramSize, romEnd, romSize} : One(S)
       /\ Cardinality(AlignIn(k)) = IF IsSome(segment.segment_end_align) THEN 2 ELSE 0
       /\ IF IsSome(segment.vram_class)
          THEN raise = {hi - 1}
               /\ w.buffer[hi - 1].a = vram_class_end(Unwrap(segment.vram_class))
               /\ romSize = {hi - 3}
          ELSE raise = {} /\ romSize = {hi - 1}
       /\ InOrder(<<romStart, vramStart, alloc, allocEnd, noload, noloadEnd, advance,
                    AlignIn(k), vramEnd, vramSize, romEnd, romSize, raise>>)
       /\ \A t \in SegmentMarkers(segment) :
             \A j \in 1..Len(w.buffer) :
                SymAt(j, t.start) \/ SymAt(j, t.end) \/ SymAt(j, t.size) => InCall(j, k)

RomPosInit == Line("ln", <<"__romPos = 0x0;">>, <<>>, <<>>)

HardcodedGp == Line("ln", <<"_gp = 0x", Unwrap(d.settings.hardcoded_gp_value), ";">>, <<>>, <<>>)

\* C20: in normal mode the script opens with the rom counter set to zero and,
\* when a fixed _gp is configured, its assignment, ahead of the lines of
\* every segment; the lines of an emitted segment are, in this order, its
\* rom and vram start symbols, the alloc block, the noload block, the
\* advance of the rom counter, the end alignment when there is one, the
\* vram end and size symbols, the rom end and size symbols and, for a
\* segment of a class, the raise of the class end symbol as its last line;
\* the lines of one segment follow those of the one before, and no marker
\* of a segment is outside its own lines.
C20_SegmentOutputOrder ==
    ~d.settings.single_segment_mode /\ pc # "segments" =>
       /\ w.buffer[3] = RomPosInit
       /\ IF IsSome(d.settings.hardcoded_gp_value)
          THEN w.buffer[4] = HardcodedGp /\ \A k \in 1..Len(calls) : calls[k].b0 >= 5
          ELSE \A k \in 1..Len(calls) : calls[k].b0 >= 4
       /\ \A k \in 1..(Len(calls) - 1) : calls[k].b1 = calls[k + 1].b0
       /\ \A k \in EmittedCalls : SegmentOutputInOrder(k)

\* a pass with a fixed _gp, a first segment with an end alignment and a
\* class, and a second segment emitted after it
C20_TwoSegmentsGpAndAlignment ==
    /\ pc = "done"
    /\ IsSome(d.settings.hardcoded_gp_value)
    /\ IsSome(d.segments[1].segment_end_align)
    /\ EmittedCalls = {1, 2}
    /\ IsSome(d.segments[2].vram_class)

---------------------------------------------------------------------------
(* C21 *)

\* the lines of s that are not empty lines
Written(s) == LET IsText(l) == l.op # "empty" IN SelectSeq(s, IsText)

\* the lines written after the last add_segment call
AfterSegments == Written(SubSeq(w.buffer, calls[Len(calls)].b1 + 1, Len(w.buffer)))

RECURSIVE SizesFrom(_)
\* the size symbols of the classes, from class i on, that an emitted segment names
SizesFrom(i) ==
    IF i > Len(d.vram_classes) THEN <<>>
    ELSE (IF EmittedRefCalls(d.vram_classes[i].name) # {}
          THEN << Line("sym", vram_class_size(d.vram_classes[i].name),
                       vram_class_end(d.vram_classes[i].name) \o <<" - ">>
                          \o vram_class_start(d.vram_classes[i].name), <<>>) >>
          ELSE <<>>) \o SizesFrom(i + 1)

Placeholders(sects) ==
    [i \in 1..Len(sects) |-> Line("single_entry", <<sects[i]>>, <<"0">>, <<>>)]

DiscardBlock ==
    IF d.settings.sections_denylist = <<>> /\ ~d.settings.discard_wildcard_section
    THEN <<>>
    ELSE << Line("ln", <<"/DISCARD/ :">>, <<>>, <<>>), Line("begin", <<"{">>, <<>>, <<>>) >>
         \o [i \in 1..Len(d.settings.sections_denylist) |->
                Line("ln", <<"*(", d.settings.sections_denylist[i], ");">>, <<>>, <<>>)]
         \o (IF d.settings.discard_wildcard_section
             THEN << Line("ln", <<"*(*);">>, <<>>, <<>>) >> ELSE <<>>)
         \o << Line("end", <<"}">>, <<>>, <<>>) >>

Closing ==
    SizesFrom(1) \o Placeholders(d.settings.sections_allowlist)
       \o Placeholders(d.settings.sections_allowlist_extra)
       \o DiscardBlock \o << Line("end", <<"}">>, <<>>, <<>>) >>

\* C21: once end_sections has run, the lines after the last segment are, in
\* this order, one size symbol for each class named by an emitted segment
\* (and for no other class), one placeholder section for each entry of the
\* allow lists, the discard block if and only if the deny list is not empty
\* or the discard wildcard is set, with every deny-listed section ahead of
\* the wildcard entry, and the closing of the SECTIONS block; no block is
\* opened or closed by any line written after that.
C21_ClosingLines ==
    w.finished =>
       /\ Len(AfterSegments) >= Len(Closing)
       /\ SubSeq(AfterSegments, 1, Len(Closing)) = Closing
       /\ \A j \in (Len(Closing) + 1)..Len(AfterSegments) :
             AfterSegments[j].op \notin {"begin", "end", "sym", "single_entry"}
       /\ w.indent = 0

C21_EverythingToClose ==
    /\ pc = "done"
    /\ Len(SizesFrom(1)) = 2
    /\ d.settings.sections_allowlist # <<>>
    /\ d.settings.sections_allowlist_extra # <<>>
    /\ Len(d.settings.sections_denylist) = 2
    /\ d.settings.discard_wildcard_section
    /\ Len(AfterSegments) > Len(Closing)

---------------------------------------------------------------------------
(* C22 *)

Selectors == {j \in 1..Len(w.buffer) : w.buffer[j].op = "sel"}

\* the policy of the file keeps section name n
Keeps(file, n) ==
    \/ file.keep_sections.tag = "All" /\ file.keep_sections.all
    \/ file.keep_sections.tag = "WhichOnes" /\ n \in file.keep_sections.which

\* C22: a selector written for an object or an archive is wrapped in KEEP( )
\* if and only if the keep policy of the file is all = true or is a named
\* subset holding the section name the selector is written for; under an
\* absent policy, all = false or a subset without that name it is not.
C22_KeepIffPolicy ==
    \A j \in Selectors :
       /\ w.buffer[j].c[1] \in {"KEEP", ""}
       /\ w.buffer[j].c[1] = "KEEP" <=> Keeps(WalkFile, w.buffer[j].b[1])

\* the redirected .rodata kept and the .data it is placed at not kept
C22_RedirectedSourceKept ==
    /\ WalkFile.section_order = (".rodata" :> ".data")
    /\ WalkFile.keep_sections = KeepWhich({".rodata"})
    /\ \E j \in Selectors :
          /\ w.buffer[j].b = <<".rodata">>
          /\ w.buffer[j].c[1] = "KEEP"
          /\ j + 1 \in Selectors
          /\ w.buffer[j + 1].b = <<".data">>
          /\ w.buffer[j + 1].c[1] = ""

---------------------------------------------------------------------------
(* C23 *)

\* the pad or linker offset of the segment, its last file
MarkerFile == WalkSegment.files[Len(WalkSegment.files)]

HasMarker == MarkerFile.kind \in {"Pad", "LinkerOffset"}

\* the line a pad or a linker offset writes
MarkerLine ==
    IF MarkerFile.kind = "Pad"
    THEN Line("pad", <<".">>, <<MarkerFile.pad_amount>>, <<>>)
    ELSE Line("sym", linker_offset(MarkerFile.linker_offset_name), <<".">>, <<>>)

\* the sections emit_file is called with while list entry s is walked: s and
\* the subgroups the segment declares under it
Visited(s) ==
    IF s \in DOMAIN WalkSegment.sections_subgroups
    THEN <<s>> \o WalkSegment.sections_subgroups[s]
    ELSE <<s>>

\* the lines call k wrote that are no selectors
NonSelectors(k) ==
    LET NotSel(l) == l.op # "sel"
    IN SelectSeq(SubSeq(w.buffer, calls[k].b0 + 1, calls[k].b1), NotSel)

\* one marker line per visited section equal to the declared one
MarkersDue(k) ==
    LET Own(n) == n = MarkerFile.section
    IN [j \in 1..Len(SelectSeq(Visited(WalkList[calls[k].i]), Own)) |-> MarkerLine]

\* C23: a pad writes its counter advance, and a linker offset its address
\* marker symbol, only where the section walked equals the section the
\* descriptor declares; at every other section they write nothing; they add
\* no path; the redirection of another file's sections does not move them.
C23_MarkerOnlyAtOwnSection ==
    HasMarker =>
       \A k \in 1..Len(calls) :
          /\ NonSelectors(k) = MarkersDue(k)
          /\ DOMAIN MarkerFile.section_order = {}
          /\ \A p \in PathsAddedBy(k) :
                \E j \in Selectors : InCall(j, k) /\ w.buffer[j].a = p
          /\ Len(WalkSegment.files) = 1 => calls[k].p1 = calls[k].p0

\* the pad declared at .rodata is written where .rodata is walked, while the
\* object's .rodata selector is written where .data is walked
C23_PadStaysAtRodata ==
    /\ Len(calls) = 3
    /\ Len(WalkSegment.files) = 2
    /\ MarkerFile.kind = "Pad" /\ MarkerFile.section = ".rodata"
    /\ NonSelectors(1) = <<>>
    /\ NonSelectors(2) = <<MarkerLine>>
    /\ NonSelectors(3) = <<>>
    /\ EmittedAt(2) = <<>>
    /\ EmittedAt(3) = <<".rodata", ".data">>

---------------------------------------------------------------------------
(* C24 *)

RECURSIVE ReachableFrom(_, _)
\* the sections reached from the set S through the subgroup mapping
ReachableFrom(S, n) ==
    IF n = 0 THEN S
    ELSE ReachableFrom(
            S \cup UNION {SeqToSet(WalkSegment.sections_subgroups[s]) :
                             s \in S \cap DOMAIN WalkSegment.sections_subgroups},
            n - 1)

\* a section lists itself, directly or through other sections
Cyclic ==
    \E s \in DOMAIN WalkSegment.sections_subgroups :
       s \in ReachableFrom(SeqToSet(WalkSegment.sections_subgroups[s]), MaxDepth)

C24_AcyclicWalkReturns ==
    ~Cyclic \/ w.reference_partial_objects => w.err = "none"

\* a mapping with a cycle walked to its end in normal mode, the segment
\* having a file: the file's .text is redirected
C24_CycleCutByRedirection ==
    /\ Cyclic /\ ~w.reference_partial_objects
    /\ WalkSegment.sections_subgroups = (".text" :> <<".text">>)
    /\ WalkSegment.files # <<>>
    /\ Len(calls) = Len(WalkList)
    /\ w.err = "none"

---------------------------------------------------------------------------
(* C25 *)

\* the value of field f the raw record gives, else the default
GivenOr(self, f, default) == IF has_value(self[f]) THEN self[f][1] ELSE default

\* C25: a FileInfo that unserialize returns has its fields as its kind
\* dictates: an archive given no subfile has the subfile *; an object and an
\* archive have pad_amount 0, an empty section and an empty
\* linker_offset_name, and the section_order given, empty when none is; a
\* pad and a linker offset have an empty path and an empty section_order; a
\* pad has an empty linker_offset_name and a linker offset has pad_amount 0.
C25_FieldsAsKindDictates ==
    Ran /\ Result.ok =>
       LET f == Result.v
       IN /\ f.kind = KindOf(d)
          /\ f.kind = "Archive" => f.subfile = GivenOr(d, "subfile", "*")
          /\ f.kind \in {"Object", "Archive"} =>
                /\ f.pad_amount = "0"
                /\ f.section = ""
                /\ f.linker_offset_name = ""
                /\ f.section_order = GivenOr(d, "section_order", EmptyMap)
                /\ f.path = d.path[1] /\ f.path # <<>>
          /\ f.kind \in {"Pad", "LinkerOffset"} =>
                /\ f.path = <<>>
                /\ f.section_order = EmptyMap
                /\ f.section = d.section[1]
          /\ f.kind = "Pad" =>
                f.linker_offset_name = "" /\ f.pad_amount = d.pad_amount[1]
          /\ f.kind = "LinkerOffset" =>
                f.pad_amount = "0" /\ f.linker_offset_name = d.linker_offset_name[1]

\* an archive given no subfile and no section_order
C25_ArchiveAllMembers ==
    /\ Ran /\ Result.ok
    /\ Result.v.kind = "Archive"
    /\ ~has_value(d.subfile) /\ ~has_value(d.section_order)
    /\ Result.v.subfile = "*"
    /\ Result.v.section_order = EmptyMap

---------------------------------------------------------------------------
(* C26 *)

\* the selectors call k wrote, as <<path, section name>>
SelectorsOf(k) ==
    LET IsSel(l) == l.op = "sel"
        sels == SelectSeq(SubSeq(w.buffer, calls[k].b0 + 1, calls[k].b1), IsSel)
    IN [j \in 1..Len(sels) |-> <<sels[j].a, sels[j].b[1]>>]

\* C26: in the block of one top-level section of a segment the selector of
\* a file and a section name is written at most once, also for a file of a
\* group in a segment that declares subgroups for the section.
C26_SelectorOncePerBlock ==
    \A k \in 1..Len(calls) :
       \A i, j \in 1..Len(SelectorsOf(k)) :
          SelectorsOf(k)[i] = SelectorsOf(k)[j] => i = j

\* the block of .text for the group of c.o and y.o: the subgroup .text.hot
\* after each file, and again after the group
C26_SubgroupAfterFileAndGroup ==
    /\ Len(calls) >= 1
    /\ WalkFile.kind = "Group"
    /\ SelectorsOf(1) = << <<<<"build", "g", "c.o">>, ".text">>,
                           <<<<"build", "g", "c.o">>, ".text.hot">>,
                           <<<<"build", "g", "y.o">>, ".text">>,
                           <<<<"build", "g", "y.o">>, ".text.hot">>,
                           <<<<"build", "g", "c.o">>, ".text.hot">>,
                           <<<<"build", "g", "y.o">>, ".text.hot">> >>

\* C26, as far as it holds: outside groups no selector is written twice
C26_OnceOutsideGroups ==
    WalkFile.kind # "Group" => C26_SelectorOncePerBlock

---------------------------------------------------------------------------
(* C27 *)

\* symbol sym is assigned by a line before line j
DefinedBefore(j, sym) == \E i \in 1..(j - 1) : SymAt(i, sym)

\* line j raises a class start against the end symbol of class c
RaisedAgainst(j, c) ==
    /\ w.buffer[j].op = "sym"
    /\ w.buffer[j].b = MaxExpr(w.buffer[j].a, vram_class_end(c))

\* line j is an output-section line placed at the vram end of segment n
PlacedAfter(j, n) ==
    /\ w.buffer[j].op = "out"
    /\ w.buffer[j].b = segment_vram_end(<<n>>)

\* C27: a symbol the script reads in a placement expression is defined by
\* an earlier line: the end symbol of a class of follows_classes before the
\* start of the following class is raised against it, and the vram end
\* symbol of the follows_segment before the segment placed at it.
C27_ReadsOnlyDefined ==
    \A j \in 1..Len(w.buffer) :
       /\ \A c \in ClassNames : RaisedAgainst(j, c) => DefinedBefore(j, vram_class_end(c))
       /\ \A i \in 1..Len(d.segments) :
             PlacedAfter(j, d.segments[i].name) =>
                DefinedBefore(j, segment_vram_end(<<d.segments[i].name>>))

\* the class start raised against the end of a class no segment has opened
C27_ClassEndNotYetWritten ==
    \E j \in 1..Len(w.buffer) :
       RaisedAgainst(j, "c1") /\ ~DefinedBefore(j, vram_class_end("c1"))

\* the first segment placed at the end of the second, written after it
C27_PlacedAtLaterSegment ==
    \E j \in 1..Len(w.buffer) :
       /\ PlacedAfter(j, "s2") /\ ~DefinedBefore(j, segment_vram_end(<<"s2">>))
       /\ \E i \in (j + 1)..Len(w.buffer) : SymAt(i, segment_vram_end(<<"s2">>))

\* the second segment placed at the end of the first, which is filtered out
C27_PlacedAtFilteredSegment ==
    /\ pc = "done"
    /\ \E j \in 1..Len(w.buffer) : PlacedAfter(j, "s1")
    /\ \A i \in 1..Len(w.buffer) : ~SymAt(i, segment_vram_end(<<"s1">>))

---------------------------------------------------------------------------
(* C29 *)

\* the segment has an address source ahead of its vram class
OwnPlacement(segment) ==
    IsSome(segment.fixed_vram) \/ IsSome(segment.fixed_symbol)
       \/ IsSome(segment.follows_segment)

\* the address line j carries is the one of the first source the segment has
AddressByPrecedence(j, segment) ==
    /\ IsSome(segment.fixed_vram) => w.buffer[j].b = <<"0x", Unwrap(segment.fixed_vram)>>
    /\ ~IsSome(segment.fixed_vram) /\ IsSome(segment.fixed_symbol) =>
          w.buffer[j].b = <<Unwrap(segment.fixed_symbol)>>
    /\ ~IsSome(segment.fixed_vram) /\ ~IsSome(segment.fixed_symbol)
          /\ IsSome(segment.follows_segment) =>
          w.buffer[j].b = <<Unwrap(segment.follows_segment), "_VRAM_END">>
    /\ ~OwnPlacement(segment) /\ IsSome(segment.vram_class) =>
          w.buffer[j].b = <<Unwrap(segment.vram_class), "_VRAM_CLASS_START">>
    /\ ~OwnPlacement(segment) /\ ~IsSome(segment.vram_class) => w.buffer[j].b = <<>>

\* the class of the segment has its start and end symbols defined by the
\* end of call k, before the output-section line when k is the first call
\* of the class, and call k raises the class end
ClassServed(k, segment) ==
    LET c == Unwrap(segment.vram_class)
        firstOfClass == \A q \in EmittedCalls :
                           q < k => d.segments[calls[q].i].vram_class # Some(c)
    IN /\ One(ClassStartDefs(c)) /\ One(ClassEndInits(c))
       /\ Before(ClassStartDefs(c), ClassEndInits(c))
       /\ Before(ClassEndInits(c), OutIn(k, segment, FALSE))
       /\ firstOfClass => \A j \in ClassStartDefs(c) \cup ClassEndInits(c) : InCall(j, k)
       /\ SymIn(k, vram_class_end(c)) \cap ClassEndRaises(c) = {calls[k].b1 - 1}
       /\ w.buffer[calls[k].b1 - 1].b =
             MaxExpr(vram_class_end(c), segment_vram_end(<<segment.name>>))

\* C29: the address on the alloc output-section line of a segment is the
\* first it has of fixed_vram, fixed_symbol, the vram end symbol of its
\* follows_segment and the start symbol of its vram_class, and none when it
\* has none of them; the noload line carries (NOLOAD) and no address; a
\* segment of a vram class still defines the class symbols when it is the
\* first of the class and still raises the class end, also when its address
\* comes from a source ahead of the class.
C29_AddressByPrecedence ==
    \A k \in EmittedCalls :
       LET segment == d.segments[calls[k].i]
       IN /\ One(OutIn(k, segment, FALSE))
          /\ \A j \in OutIn(k, segment, FALSE) : AddressByPrecedence(j, segment)
          /\ One(OutIn(k, segment, TRUE))
          /\ \A j \in OutIn(k, segment, TRUE) :
                w.buffer[j].b = <<"(NOLOAD)">> /\ w.buffer[j].c = <<>>
          /\ IsSome(segment.vram_class) => ClassServed(k, segment)

\* a segment with all four sources, placed at its fixed_vram, the first of
\* its class
C29_FixedVramAheadOfClass ==
    /\ pc = "done"
    /\ 1 \in EmittedCalls
    /\ LET segment == d.segments[calls[1].i]
       IN /\ IsSome(segment.fixed_vram) /\ IsSome(segment.fixed_symbol)
          /\ IsSome(segment.follows_segment) /\ segment.vram_class = Some("c2")
          /\ \A j \in OutIn(1, segment, FALSE) : w.buffer[j].b = <<"0x", "80100000">>
          /\ ClassServed(1, segment)

---------------------------------------------------------------------------
(* C28 *)

\* the blocks open after the first n lines of the script
Depth(n) ==
    Cardinality({j \in 1..n : w.buffer[j].op = "begin"})
       - Cardinality({j \in 1..n : w.buffer[j].op = "end"})

\* add_all_segments has returned Ok
SegmentsAdded == pc \in {"entry", "symbol_assignments", "required_symbols", "asserts",
                         "save", "done"}

\* C28: once add_all_segments has returned Ok, in normal and in
\* single-segment mode, every block opened is closed: the opening and the
\* closing lines balance, the depth is never below zero and is zero at the
\* end; an error returned from inside the block of a segment, as a path of
\* emit_file that is not converted, leaves the SECTIONS block and the block
\* of the segment open.
C28_BlocksBalanced ==
    /\ \A n \in 0..Len(w.buffer) : Depth(n) >= 0
    /\ w.indent = Depth(Len(w.buffer))
    /\ SegmentsAdded => w.indent = 0 /\ w.finished
    /\ w.err = "FailedPathConversion" =>
          /\ pc = "failed"
          /\ w.indent = 2
          /\ ~w.finished
          /\ \E j \in 1..Len(w.buffer) :
                /\ w.buffer[j].op = "out"
                /\ \A i \in j..Len(w.buffer) : w.buffer[i].op # "end"

\* a pass that closed its first segment and failed in the alloc block of
\* the second
C28_FailedInSecondSegment ==
    /\ w.err = "FailedPathConversion"
    /\ Len(calls) = 2
    /\ calls[1].err = "none" /\ calls[1].b1 > calls[1].b0
    /\ w.indent = 2
    /\ Depth(calls[1].b1) = 1

\* both modes closed to the end
C28_SingleSegmentClosed ==
    /\ pc = "done" /\ d.settings.single_segment_mode
    /\ w.indent = 0
    /\ Cardinality({j \in 1..Len(w.buffer) : w.buffer[j].op = "begin"}) > 2

---------------------------------------------------------------------------
(* C30 *)

\* the calls of the walk that wrote a selector for section name n
CallsEmitting(n) ==
    {k \in 1..Len(calls) : \E j \in 1..Len(EmittedAt(k)) : EmittedAt(k)[j] = n}

\* the selectors written for n by call k
TimesAt(k, n) == Cardinality({j \in 1..Len(EmittedAt(k)) : EmittedAt(k)[j] = n})

\* where the file has n placed: at its redirection target, else at itself
PlaceOf(n) ==
    IF n \in DOMAIN WalkFile.section_order THEN WalkFile.section_order[n] ELSE n

\* C30: for a segment without subgroups and an object with a section_order
\* map, the walk of a section list writes the selector of every name of
\* the list exactly once in the whole block, where the name itself or its
\* redirection target is walked, when that target is in the list; a name
\* of the list redirected to a target outside the list gets no selector
\* anywhere.
C30_ListedOnceOrDropped ==
    Len(calls) = Len(WalkList) /\ DOMAIN WalkFile.section_order # {} =>
       \A n \in SeqToSet(WalkList) :
          IF PlaceOf(n) \in SeqToSet(WalkList)
          THEN /\ CallsEmitting(n) = {Position(WalkList, PlaceOf(n))}
               /\ TimesAt(Position(WalkList, PlaceOf(n)), n) = 1
          ELSE CallsEmitting(n) = {}

\* .text and .rodata both placed at .data: nothing where they are walked,
\* each once where .data is walked
C30_TwoRedirectedOneKept ==
    /\ WalkList = <<".text", ".rodata", ".data">>
    /\ WalkFile.section_order = (".text" :> ".data") @@ (".rodata" :> ".data")
    /\ Len(calls) = 3
    /\ EmittedAt(1) = <<>> /\ EmittedAt(2) = <<>>
    /\ EmittedAt(3) = <<".text", ".rodata", ".data">>

\* a listed source whose target is not walked has no selector in the script
C30_SourceDropped ==
    /\ WalkList = <<".text", ".rodata">>
    /\ WalkFile.section_order = (".text" :> ".data")
    /\ Len(calls) = 2
    /\ EmittedAt(1) = <<>> /\ EmittedAt(2) = <<".rodata">>

=============================================================================
